---- MODULE Spec2Model ----
(***************************************************************************)
(* Model of the chat route of the RAG assistant: query analysis, the       *)
(* multi-stage retrieval with deduplication (addDocs), re-ranking,         *)
(* truncation, and the streamed / non-streamed answer.                     *)
(*                                                                         *)
(* Two variants of the route are modelled:                                 *)
(*   "staged" : src/app/api/chat/route.ts  (stages 1-4, cap 12)            *)
(*   "multi"  : src/unnamed/part_002       (strategies 1-5, cap 15)        *)
(* Strings are sequences of one-character strings, so that substring       *)
(* containment and toLowerCase are computed, not assumed.  Similarities    *)
(* are the store's scores times ten.                                       *)
(***************************************************************************)
EXTENDS Integers, Sequences, FiniteSets, TLC

VARIABLES
    storeRows,      \* number of rows of the documents table (ids 1..storeRows)
    variant,        \* which route file handles the request
    method,         \* "POST" (streaming) or "GET" (non-streaming)
    message,        \* the request's question (Absent when missing)
    pc,             \* position of the handler
    analysis,       \* value returned by analyzeQuery
    qi,             \* multi: index of the next search phrasing of strategy 1
    relevantDocs,   \* the accumulated matches
    existingIds,    \* the ids already accepted by addDocs
    contextDocs,    \* the list handed to formatContext
    context,        \* the formatted context
    sources,        \* the sources list given to the caller
    events,         \* the events enqueued on the response stream
    nChunks,        \* model deltas consumed so far
    closeCount,     \* number of controller.close() calls
    response,       \* the HTTP response (status 0 while the handler runs)
    log,            \* collaborator calls made so far, in order
    cancelledAt,    \* <<nChunks, Len(events)>> when the caller cancelled the stream
    \* the browser session: the Home page and the ChatInterface it mounts
    hasStartedChat, \* Home: the chat view is shown (ChatInterface is mounted)
    currentQuestion,\* Home: the question handed to ChatInterface (Absent: null)
    isLoading,      \* ChatInterface state
    abortControllerRef,         \* ChatInterface ref: the request it controls (0: null)
    hasProcessedInitialQuestion,\* ChatInterface ref
    mounted,        \* the mounted ChatInterface instance (0: none)
    requests,       \* the fetches of the session, in the order they were started
    \* one sendMessage call of ChatInterface, followed from its fetch to its
    \* finally block
    messages,       \* ChatInterface state: the messages shown
    fullContent,    \* the answer text read so far
    consumed,       \* number of events of the response stream read so far
    clientPc,       \* position of sendMessage
    \* one ingestion run (scripts/ingest: text file or PDF)
    ingestor,       \* "text" or "pdf"
    chunkCount,     \* chunks.length of the file being ingested
    documents,      \* rows of the documents table
    ipc,            \* position of the ingestion script
    batchStart,     \* i of the batch loop
    chunkState,     \* per chunk: "pending", "inflight", "ok", "failed"
    successCount,
    errorCount,
    delays,         \* the values of i after whose batch the delay was taken
    \* one call of a chunker (splitIntoChunks of the text or of the PDF script)
    splitter,       \* "text" or "pdf"
    text,           \* the text to split, as its lines
    cpc,            \* "ready" before the call, "split" after it
    chunks,         \* the returned chunk sequence
    primaryChunks,  \* text: the chunks of the primary pass
    fallbackRun,    \* text: splitByProgramBlocks was called
    calls,          \* number of calls of the chunker on this text so far
    previousChunks, \* what the call before the last one returned
    leftIndex,      \* text: chunkIndex of the primary pass when the last call returned
    start           \* splitLongBlock: where the next sub-chunk starts

\* The state of one request handler.
handlerVars == <<storeRows, variant, method, message, pc, analysis, qi, relevantDocs,
                 existingIds, contextDocs, context, sources, events, nChunks, closeCount,
                 response, log, cancelledAt>>

clientVars == <<messages, fullContent, consumed, clientPc>>

sessionVars == <<hasStartedChat, currentQuestion, isLoading, abortControllerRef,
                 hasProcessedInitialQuestion, mounted, requests, clientVars>>

ingestVars == <<ingestor, chunkCount, documents, ipc, batchStart, chunkState,
                successCount, errorCount, delays>>

chunkerVars == <<splitter, text, cpc, chunks, primaryChunks, fallbackRun, calls,
                 previousChunks, leftIndex, start>>

\* What lies outside the request handler.
outsideVars == <<sessionVars, ingestVars, chunkerVars>>

\* What the handler's own steps never assign: the caller's side of the
\* response stream, and everything outside the handler.
otherVars == <<cancelledAt, outsideVars>>

vars == <<storeRows, variant, method, message, pc, analysis, qi, relevantDocs, existingIds,
          contextDocs, context, sources, events, nChunks, closeCount, response, log,
          otherVars>>

\* The caller is still reading the response.
NoCancel == <<>>

\* null / undefined where a string is expected (no string of the alphabet).
Absent == <<"#undefined">>

\* a value that is not a string (a number in the request body)
NotAString == <<"#number">>

\* ------------------------------------------------------------------ bounds
\* Largest number of deltas the answer model produces in one stream.
MaxChunks == 2
\* Rows of the documents table when a request is served.
StoreRows == 20

\* ------------------------------------------------------- program constants
ContextCapStaged == 12
ContextCapMulti == 15
Stage1Count == 8
Stage2Count == 5
Stage3Count == 5
Stage4Count == 5
Stage4Min == 5
PhrasingCap == 3
Strategy1Count == 12
EnoughMatches == 15
Strategy2Max == 10
Strategy2Count == 10
Strategy3CountMulti == 5
DirectMin == 5
DirectCount == 10
SampleMin == 3
SampleCount == 10

\* ----------------------------------------------------------------- strings
\* String.prototype.toLowerCase on the model's alphabet.
LowerChar(c) == IF c = "A" THEN "a" ELSE c

ToLowerCase(s) == [i \in DOMAIN s |-> LowerChar(s[i])]

\* String.prototype.includes: t occurs in s as a contiguous substring.
Includes(s, t) ==
    \E i \in 0..(Len(s) - Len(t)) : SubSeq(s, i + 1, i + Len(t)) = t

\* JavaScript truthiness of an optional string: null/undefined and "" are falsy.
Truthy(v) == v # Absent /\ v # <<>>

\* a || b on optional strings
OrElse(a, b) == IF Truthy(a) THEN a ELSE b

\* --------------------------------------------------------------- the store
\* Content of the stored row with the given id.  Rows mention the program
\* name "A" literally, only in another case, or not at all.
Content(id) ==
    CASE id % 3 = 0 -> <<"x", "A">>
      [] id % 3 = 1 -> <<"a", "x">>
      [] OTHER      -> <<"b">>

\* match_score the hybrid search gives row id for the query of call q
\* (NoScore: the row carries no match_score).
NoScore == 0 - 1

MatchScore(q, id) ==
    CASE (id + q) % 4 = 0 -> NoScore
      [] (id + q) % 4 = 1 -> 2
      [] (id + q) % 4 = 2 -> 5
      [] OTHER            -> 9

\* final_score of a row: some rows without match_score carry one.
FinalScore(q, id) ==
    IF MatchScore(q, id) = NoScore /\ id % 2 = 0 THEN 7 ELSE NoScore

\* A row as the store returns it for call q.
Row(q, id) ==
    [id |-> id, content |-> Content(id), match_score |-> MatchScore(q, id),
     final_score |-> FinalScore(q, id)]

\* At most n rows of a table of rows rows, from row first on.
Window(q, rows, first, n) ==
    LET last == IF first + n - 1 <= rows THEN first + n - 1 ELSE rows
    IN  [i \in 1..(last - first + 1) |-> Row(q, first + i - 1)]

\* What one store query for call q with the given limit may return from a
\* table of rows rows: nothing, one row, a full page (from two places of the
\* table, so that pages of different calls overlap or not), or a page that
\* repeats a row.
Pages(q, rows, limit) ==
    { <<>> }
      \cup { <<Row(q, 2), Row(q, 2)>> : r \in {rows} \cap (2..rows) }
      \cup { Window(q, rows, first, n) :
                first \in {1, 9} \cap (1..rows), n \in {1, limit} }

\* Outcomes of one store call: rows, an error object, or a thrown exception.
StoreOutcomes(q, limit) ==
    { [t |-> "rows", rows |-> p] : p \in Pages(q, storeRows, limit) }
      \cup { [t |-> "error", rows |-> <<>>], [t |-> "throw", rows |-> <<>>] }

\* Outcomes of one embedding call.
EmbedOutcomes == {"ok", "throw"}

\* ---------------------------------------------------------- search helpers
\* How a search helper ends: it returns a list, or an exception leaves it.
Returned(docs) == [threw |-> FALSE, docs |-> docs]
Thrown == [threw |-> TRUE, docs |-> <<>>]

\* x || y on optional scores: a missing score and the score 0 are falsy.
ScoreOr(x, y) == IF x # NoScore /\ x # 0 THEN x ELSE y

\* matchDocuments without its try/catch (as in lib/supabase.ts): a store
\* error leaves the helper as an exception.
MatchDocumentsUncaught(out, via) ==
    IF out.t = "rows"
    THEN Returned([i \in DOMAIN out.rows |->
            [id |-> out.rows[i].id,
             content |-> out.rows[i].content,
             similarity |-> ScoreOr(out.rows[i].match_score, 0),
             via |-> via]])
    ELSE Thrown

\* matchDocuments of route.ts: the rows with match_score mapped to
\* similarity (match_score || 0); an error or an exception gives the empty
\* list.  via is the call the match came from.
MatchDocumentsStaged(out, via) ==
    IF out.t = "rows"
    THEN Returned([i \in DOMAIN out.rows |->
            [id |-> out.rows[i].id,
             content |-> out.rows[i].content,
             similarity |-> ScoreOr(out.rows[i].match_score, 0),
             via |-> via]])
    ELSE Returned(<<>>)

\* matchDocuments of the multi-strategy route:
\* similarity = match_score || final_score || 0.
MatchDocumentsMulti(out, via) ==
    IF out.t = "rows"
    THEN Returned([i \in DOMAIN out.rows |->
            [id |-> out.rows[i].id,
             content |-> out.rows[i].content,
             similarity |-> ScoreOr(out.rows[i].match_score,
                                    ScoreOr(out.rows[i].final_score, 0)),
             via |-> via]])
    ELSE Returned(<<>>)

MatchDocuments(v, out, via) ==
    IF v = "staged" THEN MatchDocumentsStaged(out, via)
    ELSE MatchDocumentsMulti(out, via)

\* directTextSearch: every row gets the fixed similarity 0.5.
DirectTextSearch(out, via) ==
    IF out.t = "rows"
    THEN Returned([i \in DOMAIN out.rows |->
            [id |-> out.rows[i].id, content |-> out.rows[i].content,
             similarity |-> 5, via |-> via]])
    ELSE Returned(<<>>)

\* getRandomSample: every row gets the fixed similarity 0.3.
GetRandomSample(out, via) ==
    IF out.t = "rows"
    THEN Returned([i \in DOMAIN out.rows |->
            [id |-> out.rows[i].id, content |-> out.rows[i].content,
             similarity |-> 3, via |-> via]])
    ELSE Returned(<<>>)

\* addDocs without existingIds.add(doc.id): an accepted id is not recorded.
RECURSIVE AddDocsNoRecord(_, _)
AddDocsNoRecord(acc, docs) ==
    IF docs = <<>> THEN acc
    ELSE LET doc == Head(docs) IN
         AddDocsNoRecord(IF doc.id \in acc.ids
                         THEN acc
                         ELSE [docs |-> Append(acc.docs, doc), ids |-> acc.ids],
                         Tail(docs))

\* addDocs on the pair (relevantDocs, existingIds): push each doc whose id
\* has not been accepted yet, and record its id.
RECURSIVE AddDocs(_, _)
AddDocs(acc, docs) ==
    IF docs = <<>> THEN acc
    ELSE LET doc == Head(docs) IN
         AddDocs(IF doc.id \in acc.ids
                 THEN acc
                 ELSE [docs |-> Append(acc.docs, doc),
                       ids |-> acc.ids \cup {doc.id}],
                 Tail(docs))

\* ------------------------------------------------------------- re-ranking
\* The sort comparator of route.ts: negative when a sorts before b.
CompareStaged(program, a, b) ==
    LET aMatchesProg == Includes(a.content, program)
        bMatchesProg == Includes(b.content, program)
    IN  IF Truthy(program) /\ aMatchesProg /\ ~bMatchesProg THEN 0 - 1
        ELSE IF Truthy(program) /\ ~aMatchesProg /\ bMatchesProg THEN 1
        ELSE b.similarity - a.similarity

\* The sort comparator of the multi-strategy route: containment is tested
\* on the lower-cased content and program name.
CompareMulti(program, a, b) ==
    LET aMatchesProg == Includes(ToLowerCase(a.content), ToLowerCase(program))
        bMatchesProg == Includes(ToLowerCase(b.content), ToLowerCase(program))
    IN  IF Truthy(program) /\ aMatchesProg /\ ~bMatchesProg THEN 0 - 1
        ELSE IF Truthy(program) /\ ~aMatchesProg /\ bMatchesProg THEN 1
        ELSE b.similarity - a.similarity

Compare(v, program, a, b) ==
    IF v = "staged" THEN CompareStaged(program, a, b)
    ELSE CompareMulti(program, a, b)

\* Array.prototype.sort with the comparator (a stable sort): x is inserted
\* after the last element that does not sort after it.
RECURSIVE InsertSorted(_, _, _, _)
InsertSorted(v, program, sorted, x) ==
    IF sorted = <<>> THEN <<x>>
    ELSE LET last == sorted[Len(sorted)] IN
         IF Compare(v, program, last, x) <= 0
         THEN Append(sorted, x)
         ELSE Append(InsertSorted(v, program, SubSeq(sorted, 1, Len(sorted) - 1), x),
                     last)

RECURSIVE SortDocs(_, _, _)
SortDocs(v, program, docs) ==
    IF docs = <<>> THEN <<>>
    ELSE InsertSorted(v, program,
                      SortDocs(v, program, SubSeq(docs, 1, Len(docs) - 1)),
                      docs[Len(docs)])

\* Array.prototype.slice(0, n)
Slice(s, n) == SubSeq(s, 1, IF Len(s) < n THEN Len(s) ELSE n)

ContextCap(v) == IF v = "staged" THEN ContextCapStaged ELSE ContextCapMulti

\* A formatted context is a sequence of pieces; the empty sequence is the
\* empty string.  The fixed 'no information available' sentence:
NoInformation == <<[kind |-> "sentence"]>>

\* The rule line that join() puts between two blocks.
Rule == [kind |-> "rule"]

\* One match's block: header with its rank, its row, its percentage
\* (similarity * 100).
Block(doc, i) ==
    [kind |-> "block", rank |-> i, id |-> doc.id, percent |-> doc.similarity * 10]

\* docs.map(block).join(rule), from the i-th match on.
RECURSIVE JoinBlocks(_, _)
JoinBlocks(docs, i) ==
    IF i > Len(docs) THEN <<>>
    ELSE IF i = Len(docs) THEN <<Block(docs[i], i)>>
    ELSE <<Block(docs[i], i), Rule>> \o JoinBlocks(docs, i + 1)

\* formatContext without its first statement: map and join only.
FormatContextJoinOnly(docs) == JoinBlocks(docs, 1)

\* formatContext: the fixed sentence for an empty list, else the joined
\* blocks.
FormatContext(docs) ==
    IF Len(docs) = 0 THEN NoInformation ELSE JoinBlocks(docs, 1)

\* The context before formatContext has run.
NoContext == <<[kind |-> "undefined"]>>

\* The sources payload: id, content preview and similarity of each match.
SourcesOf(docs) ==
    [i \in DOMAIN docs |-> [id |-> docs[i].id, similarity |-> docs[i].similarity]]

\* ------------------------------------------------------------ the analyzer
\* An absent list (search_queries or keywords not given).
AbsentList == <<Absent>>

Message == <<"A", "b", "c", " ", "q">>

\* A parsed analysis.  kind "null" is the JSON value null, "scalar" a JSON
\* number, string or boolean (every property of it is undefined).
Obj(k, sq, sqs, p, c, u, kw, g) ==
    [kind |-> k, search_query |-> sq, search_queries |-> sqs, program |-> p,
     code |-> c, university |-> u, keywords |-> kw, is_general_question |-> g]

NoAnalysis == Obj("none", Absent, AbsentList, Absent, Absent, Absent, AbsentList, FALSE)

NonObjects ==
    { Obj(k, Absent, AbsentList, Absent, Absent, Absent, AbsentList, FALSE) :
        k \in {"null", "scalar"} }

\* Objects the analysis model may answer with in the staged route.
StagedObjects ==
    { Obj("object", sq, AbsentList, p, c, u, AbsentList, FALSE) :
        sq \in {Absent, <<"A">>}, p \in {Absent, <<"A">>},
        c \in {Absent, <<"c">>}, u \in {Absent, <<"u">>} }
    \cup
    { Obj("object", sq, AbsentList, p, Absent, Absent, AbsentList, FALSE) :
        sq \in {<<>>, <<"q">>}, p \in {Absent, <<"A">>} }

\* Objects the analysis model may answer with in the multi-strategy route.
MultiObjects ==
    { Obj("object", Absent, sqs, Absent, Absent, Absent, AbsentList, g) :
        sqs \in {AbsentList, <<>>, <<<<"q">>, <<"r">>, <<"s">>, <<"t">>>>},
        g \in BOOLEAN }
    \cup
    { Obj("object", Absent, <<<<"q">>>>, p, c, Absent, kw, g) :
        p \in {Absent, <<"A">>}, c \in {Absent, <<"c">>},
        kw \in {AbsentList, <<>>, <<<<"k">>>>}, g \in BOOLEAN }

\* Outcomes of the analysis model call followed by JSON.parse.
AnalyzerOutcomes(v) ==
    { [t |-> "throw", value |-> NoAnalysis], [t |-> "unparsable", value |-> NoAnalysis] }
      \cup { [t |-> "parsed", value |-> a] :
                a \in NonObjects \cup
                      (IF v = "staged" THEN StagedObjects ELSE MultiObjects) }

\* String.prototype.split(' ')
RECURSIVE SplitFrom(_, _, _)
SplitFrom(s, i, token) ==
    IF i > Len(s) THEN <<token>>
    ELSE IF s[i] = " " THEN <<token>> \o SplitFrom(s, i + 1, <<>>)
    ELSE SplitFrom(s, i + 1, Append(token, s[i]))

Split(s) == SplitFrom(s, 1, <<>>)

\* words.filter(w => w.length > 2)
RECURSIVE LongWords(_)
LongWords(words) ==
    IF words = <<>> THEN <<>>
    ELSE (IF Len(Head(words)) > 2 THEN <<Head(words)>> ELSE <<>>)
            \o LongWords(Tail(words))

\* analyzeQuery of the multi-strategy route: the parsed value, or the
\* fallback { search_queries: [query], is_general_question: true, keywords }.
AnalyzeQueryMulti(query, out) ==
    IF out.t = "parsed" THEN out.value
    ELSE Obj("object", Absent, <<query>>, Absent, Absent, Absent,
             LongWords(Split(query)), TRUE)

\* analyzeQuery whose catch returns an empty object.
AnalyzeQueryEmptyFallback(query, out) ==
    IF out.t = "parsed" THEN out.value
    ELSE Obj("object", Absent, AbsentList, Absent, Absent, Absent, AbsentList, FALSE)

\* analyzeQuery of route.ts: the parsed value, or { search_query: query }
\* when the call or the parse throws.
AnalyzeQueryStaged(query, out) ==
    IF out.t = "parsed" THEN out.value
    ELSE Obj("object", query, AbsentList, Absent, Absent, Absent, AbsentList, FALSE)

AnalyzeQuery(v, query, out) ==
    IF v = "staged" THEN AnalyzeQueryStaged(query, out)
    ELSE AnalyzeQueryMulti(query, out)

\* ------------------------------------------------------------ HTTP results
NoResponse == [status |-> 0, body |-> "none"]
InputError == [status |-> 400, body |-> "error"]
ServerError == [status |-> 500, body |-> "error"]
StreamResponse == [status |-> 200, body |-> "stream"]
AnswerResponse == [status |-> 200, body |-> "answer"]

\* A log entry: one step's collaborator calls and what they gave.  embed is
\* the outcome of the embedding call ("none": no such call), result the
\* outcome of the analysis, store or answer-model call.
Entry(call, query, embed, result, docs) ==
    [call |-> call, query |-> query, embed |-> embed, result |-> result, docs |-> docs]

\* ------------------------------------------------------------------- Init
\* The page as it is loaded: the landing view, no ChatInterface, no fetch.
SessionIdle ==
    /\ hasStartedChat = FALSE
    /\ currentQuestion = Absent
    /\ isLoading = FALSE
    /\ abortControllerRef = 0
    /\ hasProcessedInitialQuestion = FALSE
    /\ mounted = 0
    /\ requests = <<>>
    /\ messages = <<>>
    /\ fullContent = <<>>
    /\ consumed = 0
    /\ clientPc = "idle"

\* No ingestion script is running.
IngestIdle ==
    /\ ingestor = "text"
    /\ chunkCount = 0
    /\ documents = {}
    /\ ipc = "idle"
    /\ batchStart = 0
    /\ chunkState = <<>>
    /\ successCount = 0
    /\ errorCount = 0
    /\ delays = <<>>

\* No chunker is running.
ChunkerIdle ==
    /\ splitter = "text"
    /\ text = <<>>
    /\ cpc = "idle"
    /\ chunks = <<>>
    /\ primaryChunks = <<>>
    /\ fallbackRun = FALSE
    /\ calls = 0
    /\ previousChunks = <<>>
    /\ leftIndex = 0
    /\ start = 0

\* Nothing outside the request handler is running.
OutsideIdle == SessionIdle /\ IngestIdle /\ ChunkerIdle

Messages == {Message, Absent, NotAString, <<>>}

\* A question of white space only.
Blank == <<" ">>

\* A POST body that request.json() cannot parse.
BadBody == <<"#unparsable">>

Init ==
    /\ storeRows = StoreRows
    /\ variant \in {"staged", "multi"}
    /\ method \in {"POST", "GET"}
    /\ message \in Messages
    /\ pc = "recv"
    /\ analysis = NoAnalysis
    /\ qi = 1
    /\ relevantDocs = <<>>
    /\ existingIds = {}
    /\ contextDocs = <<>>
    /\ context = NoContext
    /\ sources = <<>>
    /\ events = <<>>
    /\ nChunks = 0
    /\ closeCount = 0
    /\ response = NoResponse
    /\ log = <<>>
    /\ cancelledAt = NoCancel
    /\ OutsideIdle

\* ---------------------------------------------------------------- actions
\* The request is read and validated (POST: !message || typeof message !==
\* 'string'; GET: !question).  POST reads its body inside the try block:
\* request.json() throwing is answered by the outer catch.
Receive ==
    /\ pc = "recv"
    /\ IF message = BadBody
       THEN /\ response' = ServerError
            /\ pc' = "done"
       ELSE IF message = Absent \/ message = <<>> \/ message = NotAString
       THEN /\ response' = InputError
            /\ pc' = "done"
       ELSE /\ response' = response
            /\ pc' = "analyze"
    /\ UNCHANGED <<otherVars, storeRows, variant, method, message, analysis, qi, relevantDocs, existingIds,
                   contextDocs, context, sources, events, nChunks, closeCount, log>>

\* The failure is swallowed at the call site: the strategy counts as empty
\* and the handler goes on to build its answer.
FailSoft(entry) ==
    /\ response' = response
    /\ pc' = "respond"
    /\ log' = Append(log, entry)
    /\ UNCHANGED <<relevantDocs, existingIds>>

\* The handler fails: the outer catch answers 500.
Fail(entry) ==
    /\ response' = ServerError
    /\ pc' = "done"
    /\ log' = Append(log, entry)
    /\ UNCHANGED <<relevantDocs, existingIds>>

\* analyzeQuery is awaited; reading a property of a null analysis throws.
Analyze ==
    /\ pc = "analyze"
    /\ \E out \in AnalyzerOutcomes(variant) :
         LET a == AnalyzeQuery(variant, message, out) IN
         /\ analysis' = a
         /\ IF a.kind = "null"
            THEN Fail(Entry("analysis", message, "none", out.t, <<>>))
            ELSE /\ pc' = IF variant = "staged" THEN "stage1" ELSE "strategy1"
                 /\ log' = Append(log, Entry("analysis", message, "none", out.t, <<>>))
                 /\ UNCHANGED <<response, relevantDocs, existingIds>>
    /\ UNCHANGED <<otherVars, storeRows, variant, method, message, qi, contextDocs, context, sources,
                   events, nChunks, closeCount>>

\* One strategy: embed the query, search the store, merge with addDocs; the
\* handler goes on at next (at nextWhenEnough once 15 matches are held: the
\* break of the phrasing loop).
\* An exception that leaves the embedding call or the search helper ends the
\* request in the outer catch.
SearchStep(call, q, query, limit, next, nextWhenEnough) ==
    \E e \in EmbedOutcomes, o \in StoreOutcomes(q, limit) :
        IF e = "throw"
        THEN Fail(Entry(call, query, "throw", "none", <<>>))
        ELSE LET r == MatchDocuments(variant, o, call)
                 acc == AddDocs([docs |-> relevantDocs, ids |-> existingIds], r.docs)
                 entry == Entry(call, query, "ok",
                                IF o.t = "rows" THEN "ok" ELSE "failed", r.docs)
             IN  IF r.threw THEN Fail(entry)
                 ELSE /\ relevantDocs' = acc.docs
                      /\ existingIds' = acc.ids
                      /\ log' = Append(log, entry)
                      /\ pc' = IF Len(acc.docs) >= EnoughMatches
                               THEN nextWhenEnough ELSE next
                      /\ UNCHANGED response

\* A strategy that queries the store without an embedding (directTextSearch,
\* getRandomSample): an error or an exception gives the empty list.
DirectStep(call, q, terms, limit, next) ==
    \E o \in StoreOutcomes(q, limit) :
        LET r == IF call = "strategy4" THEN DirectTextSearch(o, call)
                 ELSE GetRandomSample(o, call)
            acc == AddDocs([docs |-> relevantDocs, ids |-> existingIds], r.docs)
            entry == Entry(call, terms, "none",
                           IF o.t = "rows" THEN "ok" ELSE "failed", r.docs)
        IN  IF r.threw THEN Fail(entry)
            ELSE /\ relevantDocs' = acc.docs
                 /\ existingIds' = acc.ids
                 /\ log' = Append(log, entry)
                 /\ pc' = next
                 /\ UNCHANGED response

Skip(next) ==
    /\ pc' = next
    /\ UNCHANGED <<relevantDocs, existingIds, log, response>>

\* GET has no institution stage, no code strategy and no sample strategy.
AfterStage3 == IF method = "POST" THEN "stage4" ELSE "respond"
AfterStrategy2 == IF method = "POST" THEN "strategy3" ELSE "strategy4"
AfterStrategy4 == IF method = "POST" THEN "strategy5" ELSE "respond"

\* optimizedQuery = analysis.search_query || message
OptimizedQuery == OrElse(analysis.search_query, message)

\* Stage 1: the full optimized query.
Stage1 ==
    /\ pc = "stage1"
    /\ variant = "staged"
    /\ SearchStep("stage1", 1, OptimizedQuery, Stage1Count, "stage2", "stage2")
    /\ UNCHANGED <<otherVars, storeRows, variant, method, message, analysis, qi, contextDocs, context,
                   sources, events, nChunks, closeCount>>

\* Stage 2 without the comparison with the query.
Stage2AnyProgram ==
    /\ pc = "stage2"
    /\ variant = "staged"
    /\ IF Truthy(analysis.program)
       THEN SearchStep("stage2", 2, analysis.program, Stage2Count, "stage3", "stage3")
       ELSE Skip("stage3")
    /\ UNCHANGED <<otherVars, storeRows, variant, method, message, analysis, qi, contextDocs, context,
                   sources, events, nChunks, closeCount>>

\* Stage 2: the program name, when there is one and it is not the query.
Stage2 ==
    /\ pc = "stage2"
    /\ variant = "staged"
    /\ IF Truthy(analysis.program) /\ analysis.program # OptimizedQuery
       THEN SearchStep("stage2", 2, analysis.program, Stage2Count, "stage3", "stage3")
       ELSE Skip("stage3")
    /\ UNCHANGED <<otherVars, storeRows, variant, method, message, analysis, qi, contextDocs, context,
                   sources, events, nChunks, closeCount>>

\* Stage 3: the program code, when there is one.
Stage3 ==
    /\ pc = "stage3"
    /\ IF Truthy(analysis.code)
       THEN SearchStep("stage3", 3, analysis.code, Stage3Count,
                       AfterStage3, AfterStage3)
       ELSE Skip(AfterStage3)
    /\ UNCHANGED <<otherVars, storeRows, variant, method, message, analysis, qi, contextDocs, context,
                   sources, events, nChunks, closeCount>>

\* Stage 4 (POST only): the institution, when fewer than 5 matches were found.
Stage4 ==
    /\ pc = "stage4"
    /\ IF Len(relevantDocs) < Stage4Min /\ Truthy(analysis.university)
       THEN SearchStep("stage4", 4, analysis.university, Stage4Count, "respond", "respond")
       ELSE Skip("respond")
    /\ UNCHANGED <<otherVars, storeRows, variant, method, message, analysis, qi, contextDocs, context,
                   sources, events, nChunks, closeCount>>

\* searchQueries = (analysis.search_queries || [message]).slice(0, 3)
SearchQueries ==
    Slice(IF analysis.search_queries = AbsentList THEN <<message>>
          ELSE analysis.search_queries, PhrasingCap)

\* Strategy 1 (multi): one iteration of the loop over the search phrasings;
\* POST leaves the loop once 15 matches are accumulated.
Strategy1 ==
    /\ pc = "strategy1"
    /\ IF qi <= Len(SearchQueries)
       THEN /\ SearchStep("strategy1", qi, SearchQueries[qi], Strategy1Count,
                          "strategy1",
                          IF method = "POST" THEN "strategy2" ELSE "strategy1")
            /\ qi' = qi + 1
       ELSE /\ Skip("strategy2")
            /\ qi' = qi
    /\ UNCHANGED <<otherVars, storeRows, variant, method, message, analysis, contextDocs, context,
                   sources, events, nChunks, closeCount>>

\* Strategy 2 (multi): the program name; POST only below 10 matches.
Strategy2 ==
    /\ pc = "strategy2"
    /\ IF Truthy(analysis.program)
          /\ (method = "GET" \/ Len(relevantDocs) < Strategy2Max)
       THEN SearchStep("strategy2", 4, analysis.program, Strategy2Count,
                       AfterStrategy2, AfterStrategy2)
       ELSE Skip(AfterStrategy2)
    /\ UNCHANGED <<otherVars, storeRows, variant, method, message, analysis, qi, contextDocs, context,
                   sources, events, nChunks, closeCount>>

\* Strategy 3 (multi, POST only): the program code.
Strategy3 ==
    /\ pc = "strategy3"
    /\ IF Truthy(analysis.code)
       THEN SearchStep("strategy3", 5, analysis.code, Strategy3CountMulti,
                       "strategy4", "strategy4")
       ELSE Skip("strategy4")
    /\ UNCHANGED <<otherVars, storeRows, variant, method, message, analysis, qi, contextDocs, context,
                   sources, events, nChunks, closeCount>>

\* keywords = analysis.keywords || []; the program name is pushed onto it.
Keywords ==
    (IF analysis.keywords = AbsentList THEN <<>> ELSE analysis.keywords)
        \o (IF Truthy(analysis.program) THEN <<analysis.program>> ELSE <<>>)

\* Strategy 4 without the test of the number of matches.
Strategy4Unguarded ==
    /\ pc = "strategy4"
    /\ IF Len(Keywords) > 0
       THEN DirectStep("strategy4", 6, Keywords, DirectCount, AfterStrategy4)
       ELSE Skip(AfterStrategy4)
    /\ UNCHANGED <<otherVars, storeRows, variant, method, message, analysis, qi, contextDocs, context,
                   sources, events, nChunks, closeCount>>

\* Strategy 4 (multi): direct text search below 5 matches, when there is a
\* keyword or a program name.
Strategy4 ==
    /\ pc = "strategy4"
    /\ IF Len(relevantDocs) < DirectMin /\ Len(Keywords) > 0
       THEN DirectStep("strategy4", 6, Keywords, DirectCount, AfterStrategy4)
       ELSE Skip(AfterStrategy4)
    /\ UNCHANGED <<otherVars, storeRows, variant, method, message, analysis, qi, contextDocs, context,
                   sources, events, nChunks, closeCount>>

\* Strategy 5 (multi, POST only): a sample for general questions below 3
\* matches.
Strategy5 ==
    /\ pc = "strategy5"
    /\ IF Len(relevantDocs) < SampleMin /\ analysis.is_general_question
       THEN DirectStep("strategy5", 7, <<>>, SampleCount, "respond")
       ELSE Skip("respond")
    /\ UNCHANGED <<otherVars, storeRows, variant, method, message, analysis, qi, contextDocs, context,
                   sources, events, nChunks, closeCount>>

\* ------------------------------------------------------- answer and stream
\* 'حدث خطأ أثناء معالجة السؤال', the message of the stream's error event
StreamErrorMessage == <<"E">>

Event(type, data) == [type |-> type, data |-> data]

\* Deltas the answer model may emit: a delta may have empty content.
Deltas == {<<>>, <<"x">>}

\* POST, after retrieval: sort, slice, formatContext, then the ReadableStream
\* is constructed; its start() enqueues the sources event before its first
\* await, and the Response is returned.
RespondPost ==
    /\ pc = "respond"
    /\ method = "POST"
    /\ LET ranked == Slice(SortDocs(variant, analysis.program, relevantDocs),
                           ContextCap(variant))
       IN  /\ relevantDocs' = ranked
           /\ contextDocs' = ranked
           /\ context' = FormatContext(ranked)
           /\ sources' = SourcesOf(ranked)
           /\ events' = Append(events, Event("sources", SourcesOf(ranked)))
    /\ response' = StreamResponse
    /\ pc' = "streamOpen"
    /\ UNCHANGED <<otherVars, storeRows, variant, method, message, analysis, qi, existingIds, nChunks,
                   closeCount, log>>

\* GET, after retrieval: sort, formatContext of the slice, chatModel.invoke;
\* the sources of the answer are mapped from relevantDocs.
RespondGet ==
    /\ pc = "respond"
    /\ method = "GET"
    /\ LET sorted == SortDocs(variant, analysis.program, relevantDocs)
           sliced == Slice(sorted, ContextCap(variant))
       IN  /\ relevantDocs' = sorted
           /\ contextDocs' = sliced
           /\ context' = FormatContext(sliced)
           /\ \E ok \in BOOLEAN :
                IF ok
                THEN /\ sources' = SourcesOf(sorted)
                     /\ response' = AnswerResponse
                     /\ log' = Append(log, Entry("answer", message, "none", "ok", <<>>))
                ELSE /\ sources' = sources
                     /\ response' = ServerError
                     /\ log' = Append(log, Entry("answer", message, "none", "failed", <<>>))
    /\ pc' = "done"
    /\ UNCHANGED <<otherVars, storeRows, variant, method, message, analysis, qi, existingIds, events,
                   nChunks, closeCount>>

\* The done event enqueued in the finally block: it follows the error event.
StreamCatchThenDone ==
    /\ events' = Append(Append(events, Event("error", StreamErrorMessage)),
                        Event("done", <<>>))
    /\ closeCount' = closeCount + 1
    /\ pc' = "done"

\* A catch block that also closes the controller, before the finally block
\* closes it again.
StreamCatchClosesTwice ==
    /\ events' = Append(events, Event("error", StreamErrorMessage))
    /\ closeCount' = closeCount + 2
    /\ pc' = "done"

\* catch: enqueue the error event; finally: controller.close().
StreamCatch ==
    /\ events' = Append(events, Event("error", StreamErrorMessage))
    /\ closeCount' = closeCount + 1
    /\ pc' = "done"

\* The caller has not cancelled the response stream: the controller accepts
\* enqueue and close.  On a cancelled stream both throw a TypeError.
Readable == cancelledAt = NoCancel

\* An enqueue on a cancelled stream throws inside the try block; the catch
\* block's enqueue of the error event throws again, and so does the finally
\* block's close: start() is left with nothing enqueued and nothing closed.
StreamAbandon ==
    /\ UNCHANGED <<events, closeCount>>
    /\ pc' = "done"

\* await chatModel.stream(finalPrompt): the call may throw.
StreamOpen ==
    /\ pc = "streamOpen"
    /\ \E ok \in BOOLEAN :
         IF ok
         THEN /\ pc' = "streaming"
              /\ log' = Append(log, Entry("answer", message, "none", "ok", <<>>))
              /\ UNCHANGED <<events, closeCount>>
         ELSE /\ IF Readable THEN StreamCatch ELSE StreamAbandon
              /\ log' = Append(log, Entry("answer", message, "none", "failed", <<>>))
    /\ UNCHANGED <<otherVars, storeRows, variant, method, message, analysis, qi, relevantDocs, existingIds,
                   contextDocs, context, sources, nChunks, response>>

\* for await: the next delta arrives; it is enqueued when its content is
\* not empty.
StreamChunk ==
    /\ pc = "streaming"
    /\ nChunks < MaxChunks
    /\ \E content \in Deltas :
         IF content = <<>>
         THEN UNCHANGED <<events, closeCount, pc>>
         ELSE IF Readable
              THEN /\ events' = Append(events, Event("chunk", content))
                   /\ UNCHANGED <<closeCount, pc>>
              ELSE StreamAbandon
    /\ nChunks' = nChunks + 1
    /\ UNCHANGED <<otherVars, storeRows, variant, method, message, analysis, qi, relevantDocs,
                   existingIds, contextDocs, context, sources, response, log>>

\* for await: the model's stream throws.
StreamFail ==
    /\ pc = "streaming"
    /\ IF Readable THEN StreamCatch ELSE StreamAbandon
    /\ log' = Append(log, Entry("answer", message, "none", "failed", <<>>))
    /\ UNCHANGED <<otherVars, storeRows, variant, method, message, analysis, qi, relevantDocs, existingIds,
                   contextDocs, context, sources, nChunks, response>>

\* The model's stream ends: the done event, then finally: controller.close().
StreamDone ==
    /\ pc = "streaming"
    /\ IF Readable
       THEN /\ events' = Append(events, Event("done", <<>>))
            /\ closeCount' = closeCount + 1
            /\ pc' = "done"
       ELSE StreamAbandon
    /\ UNCHANGED <<otherVars, storeRows, variant, method, message, analysis, qi, relevantDocs, existingIds,
                   contextDocs, context, sources, nChunks, response, log>>

Next ==
    \/ Receive
    \/ Analyze
    \/ Stage1
    \/ Stage2
    \/ Stage3
    \/ Stage4
    \/ Strategy1
    \/ Strategy2
    \/ Strategy3
    \/ Strategy4
    \/ Strategy5
    \/ RespondPost
    \/ RespondGet
    \/ StreamOpen
    \/ StreamChunk
    \/ StreamFail
    \/ StreamDone

Spec == Init /\ [][Next]_vars

\* The route serving requests while the documents table is still empty or
\* holds a single row.
SmallStoreInit ==
    /\ storeRows \in {0, 1}
    /\ variant \in {"staged", "multi"}
    /\ method \in {"POST", "GET"}
    /\ message \in Messages
    /\ pc = "recv"
    /\ analysis = NoAnalysis
    /\ qi = 1
    /\ relevantDocs = <<>>
    /\ existingIds = {}
    /\ contextDocs = <<>>
    /\ context = NoContext
    /\ sources = <<>>
    /\ events = <<>>
    /\ nChunks = 0
    /\ closeCount = 0
    /\ response = NoResponse
    /\ log = <<>>
    /\ cancelledAt = NoCancel
    /\ OutsideIdle

\* Every awaited call settles and its continuation is run: the handler
\* takes its next step whenever it has one.
FairSmallStoreSpec == SmallStoreInit /\ [][Next]_vars /\ WF_vars(Next)

\* The caller disconnects: the response stream is cancelled while start() is
\* still running.  The ReadableStream is built with a start method only (no
\* cancel method), chatModel.stream gets no abort signal and request.signal
\* is never read: the handler is not told, the stream just stops accepting.
Cancel ==
    /\ pc \in {"streamOpen", "streaming"}
    /\ Readable
    /\ cancelledAt' = <<nChunks, Len(events)>>
    /\ UNCHANGED <<outsideVars, storeRows, variant, method, message, pc, analysis, qi, relevantDocs,
                   existingIds, contextDocs, context, sources, events, nChunks, closeCount,
                   response, log>>

\* Requests of every shape, well-formed or not, on an empty store.  GET has
\* no body: its question is the q parameter, a string or null.
Malformed == {Absent, NotAString, <<>>, Blank, BadBody}

AnyRequestInit ==
    /\ storeRows = 0
    /\ variant \in {"staged", "multi"}
    /\ method \in {"POST", "GET"}
    /\ message \in Malformed \cup {Message}
    /\ method = "GET" => message \notin {NotAString, BadBody}
    /\ pc = "recv"
    /\ analysis = NoAnalysis
    /\ qi = 1
    /\ relevantDocs = <<>>
    /\ existingIds = {}
    /\ contextDocs = <<>>
    /\ context = NoContext
    /\ sources = <<>>
    /\ events = <<>>
    /\ nChunks = 0
    /\ closeCount = 0
    /\ response = NoResponse
    /\ log = <<>>
    /\ cancelledAt = NoCancel
    /\ OutsideIdle

AnyRequestSpec == AnyRequestInit /\ [][Next]_vars

NextOrCancel ==
    \/ Next
    \/ Cancel

\* The route with callers that may disconnect, on a store of 0 or 1 rows.
CancelSpec == SmallStoreInit /\ [][NextOrCancel]_vars

\* -------------------------------------------------------- the browser session
\* Largest number of fetches one session starts.
MaxRequests == 3

\* No request is being handled.
HandlerIdle ==
    /\ storeRows = 0
    /\ variant = "staged"
    /\ method = "POST"
    /\ message = Absent
    /\ pc = "idle"
    /\ analysis = NoAnalysis
    /\ qi = 1
    /\ relevantDocs = <<>>
    /\ existingIds = {}
    /\ contextDocs = <<>>
    /\ context = NoContext
    /\ sources = <<>>
    /\ events = <<>>
    /\ nChunks = 0
    /\ closeCount = 0
    /\ response = NoResponse
    /\ log = <<>>
    /\ cancelledAt = NoCancel

\* The questions of the suggestion cards.
Suggestions == {<<"a">>, <<"b">>}

\* What the user may have typed into an input box.
Inputs == {<<"a">>, <<" ", "b", " ">>, Blank, <<>>}

\* String.prototype.trim
RECURSIVE TrimStart(_)
TrimStart(s) == IF s # <<>> /\ Head(s) = " " THEN TrimStart(Tail(s)) ELSE s

RECURSIVE TrimEnd(_)
TrimEnd(s) ==
    IF s # <<>> /\ s[Len(s)] = " " THEN TrimEnd(SubSeq(s, 1, Len(s) - 1)) ELSE s

Trim(s) == TrimEnd(TrimStart(s))

\* A fetch of /api/chat started by the ChatInterface instance owner.
Request(owner, question) ==
    [owner |-> owner, question |-> question, status |-> "active"]

\* abortControllerRef.current.abort(): the fetch the controller belongs to
\* is aborted if it is still running.
Abort(reqs, ref) ==
    IF ref # 0 /\ reqs[ref].status = "active"
    THEN [reqs EXCEPT ![ref].status = "aborted"]
    ELSE reqs

\* sendMessage(question) of the ChatInterface instance owner.
SendMessage(owner, question) ==
    IF Trim(question) = <<>> \/ isLoading
    THEN UNCHANGED <<isLoading, abortControllerRef, requests>>
    ELSE /\ requests' = Append(Abort(requests, abortControllerRef),
                               Request(owner, question))
         /\ abortControllerRef' = Len(requests) + 1
         /\ isLoading' = TRUE

\* Home.handleSuggestionSelect: a suggestion card of the landing view.
SuggestionSelect ==
    /\ ~hasStartedChat
    /\ Len(requests) < MaxRequests
    /\ \E question \in Suggestions : currentQuestion' = question
    /\ hasStartedChat' = TRUE
    /\ UNCHANGED <<handlerVars, ingestVars, chunkerVars, clientVars, isLoading, abortControllerRef,
                   hasProcessedInitialQuestion, mounted, requests>>

\* Home.handleSubmit: the search box of the landing view.
HomeSubmit ==
    /\ ~hasStartedChat
    /\ Len(requests) < MaxRequests
    /\ \E inputValue \in Inputs :
         IF Trim(inputValue) # <<>>
         THEN /\ currentQuestion' = Trim(inputValue)
              /\ hasStartedChat' = TRUE
         ELSE UNCHANGED <<currentQuestion, hasStartedChat>>
    /\ UNCHANGED <<handlerVars, ingestVars, chunkerVars, clientVars, isLoading, abortControllerRef,
                   hasProcessedInitialQuestion, mounted, requests>>

\* Home renders the chat view: a new ChatInterface is mounted with fresh
\* state and refs, and its effect sends the initial question once and
\* clears it in Home (onClearInitial).
Mount ==
    /\ hasStartedChat
    /\ mounted = 0
    /\ mounted' = Len(requests) + 1
    /\ IF Truthy(currentQuestion) /\ ~hasProcessedInitialQuestion
       THEN /\ hasProcessedInitialQuestion' = TRUE
            /\ SendMessage(Len(requests) + 1, currentQuestion)
            /\ currentQuestion' = Absent
       ELSE UNCHANGED <<hasProcessedInitialQuestion, isLoading, abortControllerRef,
                        requests, currentQuestion>>
    /\ UNCHANGED <<handlerVars, ingestVars, chunkerVars, clientVars, hasStartedChat>>

\* ChatInterface.handleSubmit: the input box of the chat view.
ChatSubmit ==
    /\ mounted # 0
    /\ Len(requests) < MaxRequests
    /\ \E input \in Inputs :
         IF Trim(input) # <<>>
         THEN SendMessage(mounted, Trim(input))
         ELSE UNCHANGED <<isLoading, abortControllerRef, requests>>
    /\ UNCHANGED <<handlerVars, ingestVars, chunkerVars, clientVars, hasStartedChat, currentQuestion,
                   hasProcessedInitialQuestion, mounted>>

\* The home button of the chat view: setHasStartedChat(false).  ChatInterface
\* is unmounted; it has no effect cleanup, so its fetch is left running.
BackToLanding ==
    /\ mounted # 0
    /\ hasStartedChat' = FALSE
    /\ mounted' = 0
    /\ isLoading' = FALSE
    /\ abortControllerRef' = 0
    /\ hasProcessedInitialQuestion' = FALSE
    /\ UNCHANGED <<handlerVars, ingestVars, chunkerVars, clientVars, currentQuestion, requests>>

\* A running fetch ends, its stream read to the end or failed; the finally
\* block's setIsLoading(false) acts on the instance that started it, if it
\* is still mounted.
Settle ==
    /\ \E r \in DOMAIN requests :
         /\ requests[r].status = "active"
         /\ \E how \in {"completed", "failed"} :
              requests' = [requests EXCEPT ![r].status = how]
         /\ isLoading' = IF requests[r].owner = mounted THEN FALSE ELSE isLoading
    /\ UNCHANGED <<handlerVars, ingestVars, chunkerVars, clientVars, hasStartedChat, currentQuestion, abortControllerRef,
                   hasProcessedInitialQuestion, mounted>>

SessionNext ==
    \/ SuggestionSelect
    \/ HomeSubmit
    \/ Mount
    \/ ChatSubmit
    \/ BackToLanding
    \/ Settle

SessionInit == HandlerIdle /\ SessionIdle /\ IngestIdle /\ ChunkerIdle

\* One browser session on the Home page.
SessionSpec == SessionInit /\ [][SessionNext]_vars

\* ------------------------------------------------- sendMessage and its response
\* 'عذراً، حدث خطأ أثناء معالجة سؤالك. يرجى المحاولة مرة أخرى.', the notice of
\* the catch block
ErrorNotice == <<"S">>

UserMessage(content) == [role |-> "user", content |-> content]
AssistantMessage(content) == [role |-> "assistant", content |-> content]

\* sendMessage(question) has run up to its fetch: the user message is shown,
\* isLoading is set, and the POST handler of either route has the request.
ClientInit ==
    /\ storeRows \in {0, 1}
    /\ variant \in {"staged", "multi"}
    /\ method = "POST"
    /\ message = Message
    /\ pc = "recv"
    /\ analysis = NoAnalysis
    /\ qi = 1
    /\ relevantDocs = <<>>
    /\ existingIds = {}
    /\ contextDocs = <<>>
    /\ context = NoContext
    /\ sources = <<>>
    /\ events = <<>>
    /\ nChunks = 0
    /\ closeCount = 0
    /\ response = NoResponse
    /\ log = <<>>
    /\ cancelledAt = NoCancel
    /\ IngestIdle
    /\ ChunkerIdle
    /\ hasStartedChat = TRUE
    /\ currentQuestion = Absent
    /\ isLoading = TRUE
    /\ abortControllerRef = 1
    /\ hasProcessedInitialQuestion = FALSE
    /\ mounted = 1
    /\ requests = <<Request(1, Message)>>
    /\ messages = <<UserMessage(Message)>>
    /\ fullContent = <<>>
    /\ consumed = 0
    /\ clientPc = "fetch"

\* catch (not an AbortError): the error notice is shown; finally:
\* setIsLoading(false).
CatchError ==
    /\ messages' = Append(messages, AssistantMessage(ErrorNotice))
    /\ isLoading' = FALSE
    /\ requests' = [requests EXCEPT ![abortControllerRef].status = "failed"]
    /\ clientPc' = "done"

\* await fetch(...) resolves with the handler's response; a response that is
\* not ok is thrown as an error.
FetchResolves ==
    /\ clientPc = "fetch"
    /\ response # NoResponse
    /\ IF response.status = 200
       THEN /\ clientPc' = "reading"
            /\ UNCHANGED <<messages, isLoading, requests>>
       ELSE CatchError
    /\ UNCHANGED <<handlerVars, ingestVars, chunkerVars, hasStartedChat, currentQuestion,
                   abortControllerRef, hasProcessedInitialQuestion, mounted, fullContent,
                   consumed>>

\* await fetch(...) rejects: the request did not get through.
FetchRejects ==
    /\ clientPc = "fetch"
    /\ CatchError
    /\ UNCHANGED <<handlerVars, ingestVars, chunkerVars, hasStartedChat, currentQuestion,
                   abortControllerRef, hasProcessedInitialQuestion, mounted, fullContent,
                   consumed>>

\* reader.read() gives the next event of the stream (each read is taken to
\* deliver whole 'data: ' lines).  A chunk is added to fullContent, sources
\* are kept for the message, done has an empty branch and no branch tests
\* for error.
ReadEvent ==
    /\ clientPc = "reading"
    /\ consumed < Len(events)
    /\ fullContent' = IF events[consumed + 1].type = "chunk"
                      THEN fullContent \o events[consumed + 1].data
                      ELSE fullContent
    /\ consumed' = consumed + 1
    /\ UNCHANGED <<handlerVars, ingestVars, chunkerVars, hasStartedChat, currentQuestion,
                   isLoading, abortControllerRef, hasProcessedInitialQuestion, mounted,
                   requests, messages, clientPc>>

\* reader.read() gives done: the stream was closed and is read to the end.
\* The assistant message is pushed with fullContent; finally:
\* setIsLoading(false).
ReadDone ==
    /\ clientPc = "reading"
    /\ consumed = Len(events)
    /\ closeCount > 0
    /\ messages' = Append(messages, AssistantMessage(fullContent))
    /\ isLoading' = FALSE
    /\ requests' = [requests EXCEPT ![abortControllerRef].status = "completed"]
    /\ clientPc' = "done"
    /\ UNCHANGED <<handlerVars, ingestVars, chunkerVars, hasStartedChat, currentQuestion,
                   abortControllerRef, hasProcessedInitialQuestion, mounted, fullContent,
                   consumed>>

\* reader.read() rejects: the connection broke while the answer was read.
ReadRejects ==
    /\ clientPc = "reading"
    /\ CatchError
    /\ UNCHANGED <<handlerVars, ingestVars, chunkerVars, hasStartedChat, currentQuestion,
                   abortControllerRef, hasProcessedInitialQuestion, mounted, fullContent,
                   consumed>>

\* The POST handler and the sendMessage call that reads its response.
ClientNext ==
    \/ Receive
    \/ Analyze
    \/ Stage1
    \/ Stage2
    \/ Stage3
    \/ Stage4
    \/ Strategy1
    \/ Strategy2
    \/ Strategy3
    \/ Strategy4
    \/ Strategy5
    \/ RespondPost
    \/ StreamOpen
    \/ StreamChunk
    \/ StreamFail
    \/ StreamDone
    \/ FetchResolves
    \/ FetchRejects
    \/ ReadEvent
    \/ ReadDone
    \/ ReadRejects

ClientSpec == ClientInit /\ [][ClientNext]_vars

\* Every awaited promise settles and its continuation is run.
FairClientSpec == ClientSpec /\ WF_vars(ClientNext)

\* ------------------------------------------------------------------ ingestion
\* batchSize of the text ingestor and of the PDF ingestor.
BatchSizeText == 5
BatchSizePdf == 10

\* Largest number of chunks of an ingested text file, and of a PDF.
MaxTextChunks == 6
MaxPdfChunks == 11

BatchSize == IF ingestor = "text" THEN BatchSizeText ELSE BatchSizePdf

\* A row of the documents table: the chunk it holds and the run that wrote it
\* (0: an earlier run, 1: the run in progress).
DocRow(run, file, chunk) == [run |-> run, file |-> file, chunk |-> chunk]

\* The table left by an earlier run that ingested n chunks of file.
EarlierRun(file, n) == { DocRow(0, file, c) : c \in 1..n }

\* chunks.slice(i, i + batchSize), as chunk numbers 1..chunkCount.
Batch(i) ==
    { c \in 1..chunkCount : i < c /\ c <= i + BatchSize }

Settled(c) == chunkState[c] \in {"ok", "failed"}

\* A run of either script on a file of some number of chunks, started on one
\* of the given tables.
IngestFrom(tables) ==
    /\ HandlerIdle
    /\ SessionIdle
    /\ ChunkerIdle
    /\ ingestor \in {"text", "pdf"}
    /\ chunkCount \in IF ingestor = "text"
                      THEN {0, 1, BatchSizeText, MaxTextChunks}
                      ELSE {0, 1, MaxPdfChunks}
    /\ documents \in tables
    /\ ipc = "start"
    /\ batchStart = 0
    /\ chunkState = [c \in 1..chunkCount |-> "pending"]
    /\ successCount = 0
    /\ errorCount = 0
    /\ delays = <<>>

\* A run starts on an empty table, on the table an earlier run of the same
\* file left, or on the table of another file.
IngestInit ==
    IngestFrom({{}, EarlierRun("this", chunkCount), EarlierRun("other", 2)})

\* The text ingestor clears the table before its loop (delete().neq('id', 0))
\* and exits when the delete fails; the PDF ingestor goes straight to its
\* loop.
BeginRun ==
    /\ ipc = "start"
    /\ IF ingestor = "text"
       THEN \E deleteError \in BOOLEAN :
              IF deleteError
              THEN ipc' = "exit" /\ documents' = documents
              ELSE ipc' = "loop" /\ documents' = {}
       ELSE ipc' = "loop" /\ documents' = documents
    /\ UNCHANGED <<handlerVars, sessionVars, chunkerVars, ingestor, chunkCount, batchStart, chunkState,
                   successCount, errorCount, delays>>

\* for (i < chunks.length): batch.map starts the callback of every chunk of
\* the batch (each runs up to its first await); Promise.all then waits.
StartBatch ==
    /\ ipc = "loop"
    /\ IF batchStart < chunkCount
       THEN /\ chunkState' = [c \in 1..chunkCount |->
                                IF c \in Batch(batchStart) THEN "inflight"
                                ELSE chunkState[c]]
            /\ ipc' = "await"
       ELSE /\ ipc' = "done"
            /\ chunkState' = chunkState
    /\ UNCHANGED <<handlerVars, sessionVars, chunkerVars, ingestor, chunkCount, documents, batchStart,
                   successCount, errorCount, delays>>

\* The callback of one chunk without its try/catch: a failure rejects the
\* promise, Promise.all rejects and the script ends without counting.
ChunkSettlesUncaught ==
    /\ \E c \in 1..chunkCount :
         /\ chunkState[c] = "inflight"
         /\ \E inserted \in BOOLEAN :
              IF inserted
              THEN /\ chunkState' = [chunkState EXCEPT ![c] = "ok"]
                   /\ documents' = documents \cup {DocRow(1, "this", c)}
                   /\ successCount' = successCount + 1
                   /\ ipc' = ipc
              ELSE /\ chunkState' = [chunkState EXCEPT ![c] = "failed"]
                   /\ documents' = documents
                   /\ successCount' = successCount
                   /\ ipc' = "exit"
    /\ UNCHANGED <<handlerVars, sessionVars, chunkerVars, ingestor, chunkCount, errorCount, batchStart,
                   delays>>

\* How the callback of one chunk may end: the row inserted, embedQuery
\* throwing, insert returning an error, insert throwing.
ChunkOutcomes == {"inserted", "embedThrows", "insertError", "insertThrows"}

\* The callback of one chunk runs to its end (embedQuery, then insert): the
\* row is written and successCount is incremented, or the failure is counted
\* in errorCount, by the error branch or by the catch block.
ChunkSettles ==
    /\ \E c \in 1..chunkCount :
         /\ chunkState[c] = "inflight"
         /\ \E out \in ChunkOutcomes :
              IF out = "inserted"
              THEN /\ chunkState' = [chunkState EXCEPT ![c] = "ok"]
                   /\ documents' = documents \cup {DocRow(1, "this", c)}
                   /\ successCount' = successCount + 1
                   /\ errorCount' = errorCount
              ELSE /\ chunkState' = [chunkState EXCEPT ![c] = "failed"]
                   /\ documents' = documents
                   /\ successCount' = successCount
                   /\ errorCount' = errorCount + 1
    /\ UNCHANGED <<handlerVars, sessionVars, chunkerVars, ingestor, chunkCount, ipc, batchStart, delays>>

\* The loop going on as soon as one chunk of the batch has settled (a race
\* instead of Promise.all).
BatchSettledRace ==
    /\ ipc = "await"
    /\ \E c \in Batch(batchStart) : Settled(c)
    /\ IF batchStart + BatchSize < chunkCount
       THEN ipc' = "delay" /\ batchStart' = batchStart
       ELSE ipc' = "loop" /\ batchStart' = batchStart + BatchSize
    /\ UNCHANGED <<handlerVars, sessionVars, chunkerVars, ingestor, chunkCount, documents, chunkState,
                   successCount, errorCount, delays>>

\* await Promise.all(promises) resumes when every chunk of the batch has
\* settled; the delay is started when another batch follows.
BatchSettled ==
    /\ ipc = "await"
    /\ \A c \in Batch(batchStart) : Settled(c)
    /\ IF batchStart + BatchSize < chunkCount
       THEN ipc' = "delay" /\ batchStart' = batchStart
       ELSE ipc' = "loop" /\ batchStart' = batchStart + BatchSize
    /\ UNCHANGED <<handlerVars, sessionVars, chunkerVars, ingestor, chunkCount, documents, chunkState,
                   successCount, errorCount, delays>>

\* setTimeout(resolve, 500) fires: i += batchSize.
DelayElapsed ==
    /\ ipc = "delay"
    /\ delays' = Append(delays, batchStart)
    /\ batchStart' = batchStart + BatchSize
    /\ ipc' = "loop"
    /\ UNCHANGED <<handlerVars, sessionVars, chunkerVars, ingestor, chunkCount, documents, chunkState,
                   successCount, errorCount>>

IngestNext ==
    \/ BeginRun
    \/ StartBatch
    \/ ChunkSettles
    \/ BatchSettled
    \/ DelayElapsed

\* One run of an ingestion script.
IngestSpec == IngestInit /\ [][IngestNext]_vars

\* A run on an empty table.
FirstIngestInit == IngestFrom({{}})

\* Every call of the run settles and the timer fires.
FairIngestSpec == FirstIngestInit /\ [][IngestNext]_vars /\ WF_vars(IngestNext)

\* ================================================================== claims
\* Positions of the handler while the strategies run (before re-ranking).
RetrievalPcs ==
    {"stage1", "stage2", "stage3", "stage4", "strategy1", "strategy2",
     "strategy3", "strategy4", "strategy5", "respond"}

\* The calls that search the store.
SearchCalls ==
    {"stage1", "stage2", "stage3", "stage4", "strategy1", "strategy2",
     "strategy3", "strategy4", "strategy5"}

\* Every match the strategies have returned so far, in execution order.
RECURSIVE ReturnedDocs(_)
ReturnedDocs(l) ==
    IF l = <<>> THEN <<>>
    ELSE ReturnedDocs(SubSeq(l, 1, Len(l) - 1)) \o l[Len(l)].docs

IdsOf(docs) == { docs[i].id : i \in DOMAIN docs }

\* The first match with the given id in a list that has one.
FirstWithId(docs, id) ==
    docs[CHOOSE i \in DOMAIN docs :
            docs[i].id = id /\ \A j \in 1..(i - 1) : docs[j].id # id]

C2_ResultCapped ==
    response.status = 200 =>
        /\ Len(contextDocs) <= ContextCap(variant)
        /\ Len(sources) <= ContextCap(variant)
        /\ sources = SourcesOf(contextDocs)

\* The handler has re-ranked relevantDocs.
Ranked ==
    /\ Len(log) > 0
    /\ (response = StreamResponse \/ log[Len(log)].call = "answer")

\* The content literally contains the extracted program name.
MentionsProgram(doc) ==
    Truthy(analysis.program) /\ Includes(doc.content, analysis.program)

\* C3: after re-ranking, every match whose content contains the program
\* name precedes every match whose content does not, and within each of
\* the two groups (the whole list when there is no program name)
\* similarities do not increase.
C3_RankedByProgramThenSimilarity ==
    Ranked =>
        \A i, j \in DOMAIN relevantDocs :
            i < j =>
                /\ ~(~MentionsProgram(relevantDocs[i]) /\ MentionsProgram(relevantDocs[j]))
                /\ (MentionsProgram(relevantDocs[i]) = MentionsProgram(relevantDocs[j])
                      => relevantDocs[i].similarity >= relevantDocs[j].similarity)

\* C4: a store search call that fails counts as zero matches: the matches
\* accumulated so far are kept, the handler goes on with the remaining
\* strategies, and the failure is never what ends the request with the
\* server error.
C4_StoreFailureTolerated ==
    /\ [](\A k \in DOMAIN log :
            (log[k].call \in SearchCalls /\ log[k].result = "failed") =>
                /\ log[k].docs = <<>>
                /\ ~(k = Len(log) /\ response = ServerError))
    /\ [][ (/\ Len(log') = Len(log) + 1
             /\ log'[Len(log')].call \in SearchCalls
             /\ log'[Len(log')].result = "failed")
           => (/\ relevantDocs' = relevantDocs
               /\ existingIds' = existingIds
               /\ response' = NoResponse
               /\ pc' \in RetrievalPcs) ]_vars

\* C4 witness: a store call failed after matches had been accumulated, a
\* later strategy still ran and found matches, and the request succeeded.
C4_Witness ==
    /\ response.status = 200
    /\ \E j, k, l \in DOMAIN log :
          /\ j < k /\ k < l
          /\ log[j].call \in SearchCalls /\ log[j].docs # <<>>
          /\ log[k].call \in SearchCalls /\ log[k].result = "failed"
          /\ log[l].call \in SearchCalls /\ log[l].docs # <<>>

\* C5: an embedding call other than the first one that throws never ends
\* the request with the server error.
C5_SecondaryEmbeddingTolerated ==
    \A k \in DOMAIN log :
        (k > 2 /\ log[k].embed = "throw") => response # ServerError

\* The first embedding call, the one for the primary query, threw.
FirstEmbeddingFailed ==
    /\ Len(log) >= 2
    /\ log[2].call \in {"stage1", "strategy1"}
    /\ log[2].embed = "throw"

\* C6: when the first embedding call throws, the request ends with the
\* server error (status 500), no store search and no answer-model call is
\* made, and no event is ever put on a stream.
C6_FirstEmbeddingFailureIsFatal ==
    FirstEmbeddingFailed =>
        /\ pc = "done"
        /\ response = ServerError
        /\ Len(log) = 2
        /\ log[2].result = "none"
        /\ \A k \in DOMAIN log : log[k].call # "answer"
        /\ events = <<>>
        /\ closeCount = 0
        /\ relevantDocs = <<>>
        /\ sources = <<>>

\* C6 witness: the first embedding call has thrown and the handler is over.
C6_Witness == FirstEmbeddingFailed /\ pc = "done"

\* The analysis model call threw, or its output did not parse.
AnalyzerFailed ==
    /\ Len(log) >= 1
    /\ log[1].call = "analysis"
    /\ log[1].result \in {"throw", "unparsable"}

\* C7: when the analysis call throws or its output does not parse,
\* analyzeQuery returns (the request goes on) an analysis whose search string
\* is the question, and the primary search is made with the question as
\* its query text.
C7_AnalyzerFallbackIsQuestion ==
    AnalyzerFailed =>
        /\ analysis.kind = "object"
        /\ IF variant = "staged"
           THEN analysis.search_query = message
           ELSE analysis.search_queries = <<message>>
        /\ Len(log) = 1 => (response = NoResponse /\ pc \in {"stage1", "strategy1"})
        /\ Len(log) >= 2 =>
              (log[2].call \in {"stage1", "strategy1"} /\ log[2].query = message)

\* C7 witness: after a failed analysis the store was searched for the
\* question.
C7_Witness ==
    /\ AnalyzerFailed
    /\ Len(log) >= 2
    /\ log[2].embed = "ok"
    /\ log[2].result = "ok"
    /\ log[2].query = Message

\* A search was made with a non-empty search string (for the direct text
\* search: a non-empty list of terms).
SearchedNonEmpty(k) ==
    /\ log[k].call \in {"stage1", "stage2", "stage3", "stage4", "strategy1",
                         "strategy2", "strategy3", "strategy4"}
    /\ IF log[k].embed = "none"
       THEN Len(log[k].query) > 0
       ELSE log[k].embed = "ok" /\ Truthy(log[k].query)

\* C8: whatever the analyzer's outcome, the request is not aborted by it
\* and retrieval makes at least one search with a non-empty search string.
C8_AnalyzerNeverAborts ==
    /\ ~(Len(log) = 1 /\ response = ServerError)
    /\ pc = "respond" => \E k \in DOMAIN log : SearchedNonEmpty(k)

IsTerminal(e) == e.type \in {"done", "error"}

\* C9: a stream's events are one sources event first, then chunk events,
\* then exactly one terminal event, done or error; nothing follows the
\* terminal event.
C9_EventOrder ==
    /\ [](/\ response = StreamResponse <=> events # <<>>
          /\ \A i \in DOMAIN events :
                /\ events[i].type \in {"sources", "chunk", "done", "error"}
                /\ events[i].type = "sources" <=> i = 1
                /\ IsTerminal(events[i]) => i = Len(events)
          /\ (pc = "done" /\ response = StreamResponse)
                => IsTerminal(events[Len(events)]))
    /\ [][ (events # <<>> /\ IsTerminal(events[Len(events)]))
             => events' = events ]_vars

\* C9 witness: a finished stream with sources, two chunks and done.
C9_Witness ==
    /\ pc = "done"
    /\ Len(events) = 4
    /\ events[2].type = "chunk"
    /\ events[3].type = "chunk"
    /\ events[4].type = "done"

\* The answer model failed while the stream was open.
ModelFailedInStream ==
    /\ response = StreamResponse
    /\ \E k \in DOMAIN log : log[k].call = "answer" /\ log[k].result = "failed"

\* C10: when the answer model fails, the stream gets exactly one error
\* event carrying the failure message and no done event, and is closed
\* exactly once; events already emitted are never changed; every stream is
\* eventually closed.
C10_FailureEndsStream ==
    /\ [](/\ closeCount <= 1
          /\ ModelFailedInStream =>
                /\ closeCount = 1
                /\ events[Len(events)] = Event("error", StreamErrorMessage)
                /\ \A i \in 1..(Len(events) - 1) : ~IsTerminal(events[i]))
    /\ [][ Len(events') >= Len(events)
             /\ SubSeq(events', 1, Len(events)) = events ]_vars
    /\ (response = StreamResponse) ~> (closeCount = 1)

\* C10 witness: the model failed after two chunks had been emitted.
C10_Witness ==
    /\ ModelFailedInStream
    /\ Len(events) = 4
    /\ events[2].type = "chunk"
    /\ events[3].type = "chunk"
    /\ events[4].type = "error"
    /\ closeCount = 1

\* C12: once the caller has cancelled the response stream, the answer-model
\* call is aborted: no further delta of that call is consumed by the handler
\* and no further event is put on the stream.
C12_CancelAbortsModelCall ==
    ~Readable => /\ nChunks = cancelledAt[1]
                 /\ Len(events) = cancelledAt[2]

\* The handler has built its context.
Responded == context # NoContext

\* Retrieval is over and no strategy found a match.
EmptyRetrieval == Responded /\ relevantDocs = <<>> /\ contextDocs = <<>>

AnswerCalls == { k \in DOMAIN log : log[k].call = "answer" }

\* C13: the formatted context is never the empty string and is the fixed
\* sentence exactly when the list it was built from is empty; a request
\* whose retrieval found nothing is answered all the same: POST opens the
\* stream with a sources event holding the empty list, the answer model is
\* called, and unless that call fails the stream is sources, chunk*, done;
\* GET fails only when the answer model does.
C13_EmptyRetrievalAnswered ==
    /\ Responded => /\ context # <<>>
                    /\ (context = NoInformation) <=> (contextDocs = <<>>)
    /\ EmptyRetrieval =>
          /\ context = NoInformation
          /\ pc \in {"streaming", "done"} => AnswerCalls # {}
          /\ method = "POST" =>
                /\ response = StreamResponse
                /\ events[1] = Event("sources", <<>>)
                /\ (pc = "done" /\ \A k \in AnswerCalls : log[k].result = "ok") =>
                      /\ events[Len(events)] = Event("done", <<>>)
                      /\ \A i \in 2..(Len(events) - 1) : events[i].type = "chunk"
          /\ method = "GET" =>
                (response = ServerError => \E k \in AnswerCalls : log[k].result = "failed")

\* C13 witness: every store search of the request came back empty, and the
\* stream is sources with the empty list, one chunk, done.
C13_Witness ==
    /\ EmptyRetrieval
    /\ \E k \in DOMAIN log : log[k].call \in SearchCalls /\ log[k].result = "ok"
    /\ pc = "done"
    /\ Len(events) = 3
    /\ events[1] = Event("sources", <<>>)
    /\ events[2].type = "chunk"
    /\ events[3].type = "done"

\* C14: a request whose question is missing, not a string, empty, blank, or
\* whose body does not parse is answered with the input error (status 400)
\* as soon as it is read, and no analyzer, embedding, store or answer-model
\* call is made for it.
C14_MalformedRejected ==
    (message \in Malformed /\ pc # "recv") =>
        /\ response = InputError
        /\ pc = "done"
        /\ log = <<>>

\* The fetches of the session whose answer is still being streamed.
ActiveRequests == { r \in DOMAIN requests : requests[r].status = "active" }

\* C11: within one session at most one synthesis stream is active at any
\* time: when a request is started, every earlier one has completed or has
\* been aborted.
C11_OneActiveStream == Cardinality(ActiveRequests) <= 1

\* The rows the run in progress has written.
InsertedRows == { r \in documents : r.run = 1 }

\* The chunks of the file, each as the row one run writes for it.
ChunksOfRun == { DocRow(1, "this", c) : c \in 1..chunkCount }

\* C15: the table is cleared before the first insert of a run (no row of an
\* earlier run is left once the run has inserted one), and after a run in
\* which no chunk failed the table holds exactly the chunks of that run,
\* each once, whatever it held before: the same contents after one run as
\* after a second run on the same file.
C15_FullReplace ==
    /\ InsertedRows # {} => documents = InsertedRows
    /\ (ipc = "done" /\ errorCount = 0) => documents = ChunksOfRun

InFlight == { c \in 1..chunkCount : chunkState[c] = "inflight" }

\* C16: a chunk failure ends neither the batch nor the run (the script
\* exits only when clearing the table fails, before any chunk is started);
\* every chunk is started exactly once; successCount counts the rows
\* written and errorCount the failed chunks, so that when the run has
\* finished successCount + errorCount is the number of chunks; the run
\* does finish.
C16_FailSoftCounts ==
    /\ [](/\ successCount = Cardinality(InsertedRows)
          /\ successCount = Cardinality({c \in 1..chunkCount : chunkState[c] = "ok"})
          /\ errorCount = Cardinality({c \in 1..chunkCount : chunkState[c] = "failed"})
          /\ ipc = "exit" => \A c \in 1..chunkCount : chunkState[c] = "pending"
          /\ ipc = "done" => /\ \A c \in 1..chunkCount : Settled(c)
                             /\ successCount + errorCount = chunkCount)
    /\ [][\A c \in 1..chunkCount :
            /\ chunkState'[c] = "pending" => chunkState[c] = "pending"
            /\ (chunkState'[c] = "inflight" /\ chunkState[c] # "inflight")
                  => chunkState[c] = "pending"
            /\ Settled(c) => chunkState'[c] = chunkState[c]]_vars
    /\ (ipc = "loop") ~> (ipc = "done")

\* C16 witness: a finished run of two batches with failed chunks in both
\* batches and inserted chunks in both.
C16_Witness ==
    /\ ipc = "done"
    /\ ingestor = "text"
    /\ chunkCount = MaxTextChunks
    /\ chunkState[1] = "failed"
    /\ chunkState[2] = "ok"
    /\ chunkState[BatchSizeText + 1] = "failed"
    /\ errorCount = 2

\* C17: at most batchSize chunks are in flight; while a chunk is in flight
\* every chunk of the earlier batches has settled and no chunk of a later
\* batch has been started; one delay has been taken after each batch that
\* another batch follows, and none after the last batch.
C17_BatchWindow ==
    /\ Cardinality(InFlight) <= BatchSize
    /\ \A c \in 1..chunkCount :
          /\ (c <= batchStart /\ ipc # "start") => Settled(c)
          /\ c > batchStart + BatchSize => chunkState[c] = "pending"
    /\ \A k \in DOMAIN delays :
          /\ delays[k] = (k - 1) * BatchSize
          /\ delays[k] + BatchSize < chunkCount
    /\ (ipc \in {"await", "delay"} \/ InFlight # {}) =>
          Len(delays) * BatchSize = batchStart
    /\ ipc = "done" =>
          (Len(delays) + 1) * BatchSize >= chunkCount

\* C17 witness: the second batch of a PDF run is in flight after a first
\* batch of ten chunks and one delay.
C17_Witness ==
    /\ ingestor = "pdf"
    /\ chunkCount = MaxPdfChunks
    /\ InFlight = {MaxPdfChunks}
    /\ delays = <<0>>
    /\ \A c \in 1..BatchSizePdf : Settled(c)

\* ---------------------------------------------------------------------------
\* The chunkers of the ingestion scripts.
\*
\* A text is the sequence of its lines, and a line is one of the kinds below;
\* every marker the splitters look for stands at the start of its line.
\*   "notes"  ملاحظة تنظيمية مهمة ...     the organizational notes marker
\*   "sect"   قسم X                        a section line
\*   "sectB"  قسم Y                        a section line of another name
\*   "name"   اسم البرنامج: N             a program name line
\*   "star"   اسم البرنامج: *N*           a program name line, name in asterisks
\*   "prog"   البرنامج: N                 a program line without اسم
\*   "code"   رمز البرنامج: C             a program code line
\*   "bare"   ... AB123 ...                a line that holds a code and no marker
\*   "rule"   __________                   a separator of underscores
\*   "para"   a paragraph line
\*   "word"   a short line
\*   "long"   a paragraph longer than the PDF chunker's block limit, a full
\*            stop ending every sentence of it
\* ---------------------------------------------------------------------------

SectionKinds == {"sect", "sectB"}

LineKinds == {"notes", "sect", "sectB", "name", "star", "prog", "code", "bare", "rule", "para", "word", "long"}

\* Number of characters of a line of each kind.
LineLength(k) ==
    CASE k = "notes" -> 120
      [] k = "sect"  -> 10
      [] k = "sectB" -> 10
      [] k = "name"  -> 60
      [] k = "star"  -> 60
      [] k = "prog"  -> 60
      [] k = "code"  -> 20
      [] k = "bare"  -> 30
      [] k = "rule"  -> 10
      [] k = "para"  -> 60
      [] k = "word"  -> 10
      [] k = "long"  -> 2600

RECURSIVE SumLengths(_, _)
SumLengths(lines, i) ==
    IF i > Len(lines) THEN 0 ELSE LineLength(lines[i]) + SumLengths(lines, i + 1)

\* block.trim().length: the lines and the line feeds between them.
TrimmedLength(lines) ==
    IF Len(lines) = 0 THEN 0 ELSE SumLengths(lines, 1) + Len(lines) - 1

\* Thresholds of the text chunker.
MinBlockLength == 50
FewChunks == 10
MinNotesLength == 100
MinContentLength == 50

\* The values a name or a code is extracted as.
ProgramName == <<"N">>
StarredName == <<"*", "N", "*">>
ProgramCode == <<"C">>
BareCode == <<"A", "B">>

\* The section names: of a section line, of the notes chunk ('ملاحظات
\* تنظيمية'), and the empty string currentSection starts as.
SectionName(k) == IF k = "sect" THEN <<"X">> ELSE <<"Y">>
NotesSection == <<"n">>
NoSection == <<>>

\* Whole-block content of a chunk.
WholeBlock(lines) == [lines |-> lines, from |-> 0, to |-> TrimmedLength(lines)]

Chunk(type, name, code, section, index, content) ==
    [chunk_type |-> type, program_name |-> name, program_code |-> code,
     section |-> section, chunk_index |-> index, content |-> content]

\* Position of the first line at or after i whose kind is in kinds, 0 if none.
RECURSIVE FirstOf(_, _, _)
FirstOf(lines, kinds, i) ==
    IF i > Len(lines) THEN 0
    ELSE IF lines[i] \in kinds THEN i
    ELSE FirstOf(lines, kinds, i + 1)

\* extractProgramName: the first pattern that matches decides.  Pattern 1
\* matches a name line; on a starred name its group stops before the asterisk
\* and the name is the empty string.  Pattern 2 (البرنامج) matches a program
\* line, and also inside a code line (رمز البرنامج: C), where it yields the
\* code as the name.
extractProgramName(block) ==
    LET n == FirstOf(block, {"name", "star"}, 1)
        p == FirstOf(block, {"prog", "code"}, 1)
    IN  IF n > 0 THEN (IF block[n] = "name" THEN ProgramName ELSE <<>>)
        ELSE IF p > 0 THEN (IF block[p] = "prog" THEN ProgramName ELSE ProgramCode)
        ELSE Absent

\* extractProgramCode.  Pattern 1 matches a code line.  Pattern 4 is global:
\* text.match returns every code of the block, searching from the start of
\* the block whatever an earlier call did, and match[1] || match[0] is one of
\* them; the bare lines all hold the same code.
extractProgramCode(block) ==
    IF FirstOf(block, {"code"}, 1) > 0 THEN ProgramCode
    ELSE IF FirstOf(block, {"bare"}, 1) > 0 THEN BareCode
    ELSE Absent

\* text.split(programSeparators): a new block starts before every name,
\* starred name, program and section line; a separator of underscores ends a
\* block and is dropped.
RECURSIVE SplitOnSeparators(_, _, _)
SplitOnSeparators(lines, i, block) ==
    IF i > Len(lines) THEN <<block>>
    ELSE IF lines[i] = "rule"
         THEN <<block>> \o SplitOnSeparators(lines, i + 1, <<>>)
    ELSE IF lines[i] \in SectionKinds \cup {"name", "star", "prog"}
         THEN <<block>> \o SplitOnSeparators(lines, i + 1, <<lines[i]>>)
    ELSE SplitOnSeparators(lines, i + 1, Append(block, lines[i]))

\* let chunkIndex = 0: what a call of splitIntoChunks starts counting from.
FirstIndexKept == leftIndex

FirstIndex == 0

\* The organizational notes of the primary pass: the text starts with the
\* marker and a section or name line follows; the notes end before it.
PrimaryNotes(lines) ==
    LET e == FirstOf(lines, SectionKinds \cup {"name", "star"}, 1)
    IN  IF Len(lines) > 0 /\ lines[1] = "notes" /\ e > 0
        THEN <<Chunk("organizational_notes", Absent, Absent, NotesSection, FirstIndex,
                     WholeBlock(SubSeq(lines, 1, e - 1)))>>
        ELSE <<>>

\* The state of a chunker's loop, st, holds the loop's variables (chunks,
\* chunkIndex, currentSection, ...), what the loop has not visited yet (blocks
\* or lines), and two records kept beside the code's variables: passed, the
\* name of the last section line the loop went past, and precededBy, for each
\* pushed chunk the value of passed when it was pushed.

\* A push that does not advance chunkIndex.
PushSameIndex(st, type, name, code, content) ==
    [st EXCEPT !.chunks = Append(@, Chunk(type, name, code, st.currentSection,
                                          st.chunkIndex, content)),
               !.precededBy = Append(@, st.passed)]

\* chunks.push({ ..., section: currentSection, chunk_index: chunkIndex++ }).
Push(st, type, name, code, content) ==
    [st EXCEPT !.chunks = Append(@, Chunk(type, name, code, st.currentSection,
                                          st.chunkIndex, content)),
               !.chunkIndex = @ + 1,
               !.precededBy = Append(@, st.passed)]

\* The loop went past a block: a section line at its start is remembered.
Passed(st, block) ==
    IF Len(block) > 0 /\ block[1] \in SectionKinds
    THEN [st EXCEPT !.passed = SectionName(block[1])]
    ELSE st

\* The body of the loop over the blocks.
PrimaryBlock(st, block) ==
    IF TrimmedLength(block) < MinBlockLength THEN st
    ELSE IF block[1] \in SectionKinds
         THEN Push([st EXCEPT !.currentSection = SectionName(block[1])],
                   "section_header", Absent, Absent, WholeBlock(block))
    ELSE IF Truthy(extractProgramName(block)) \/ Truthy(extractProgramCode(block))
         THEN Push(st, "program", extractProgramName(block),
                   extractProgramCode(block), WholeBlock(block))
    ELSE st

RECURSIVE PrimaryLoop(_)
PrimaryLoop(st) ==
    IF st.blocks = <<>> THEN st
    ELSE PrimaryLoop(PrimaryBlock(Passed([st EXCEPT !.blocks = Tail(@)], Head(st.blocks)),
                                  Head(st.blocks)))

\* The notes chunk is preceded by no section line.
BesideNotes(notes) == [i \in 1..Len(notes) |-> NoSection]

\* The primary pass of splitIntoChunks, up to the test of the number of
\* chunks: the state its loop ends in, and its chunks.
PrimaryState(lines) ==
    PrimaryLoop([chunks |-> PrimaryNotes(lines),
                 chunkIndex |-> FirstIndex + Len(PrimaryNotes(lines)),
                 currentSection |-> NoSection,
                 blocks |-> SplitOnSeparators(lines, 1, <<>>),
                 passed |-> NoSection,
                 precededBy |-> BesideNotes(PrimaryNotes(lines))])

PrimaryPass(lines) == PrimaryState(lines).chunks

\* splitByProgramBlocks.
FallbackNotes(lines) ==
    LET s == FirstOf(lines, SectionKinds, 1)
    IN  IF s > 1 /\ TrimmedLength(SubSeq(lines, 1, s - 1)) > MinNotesLength
        THEN <<Chunk("organizational_notes", Absent, Absent, NotesSection, 0,
                     WholeBlock(SubSeq(lines, 1, s - 1)))>>
        ELSE <<>>

Emptied(st) ==
    [st EXCEPT !.currentBlock = <<>>, !.currentProgramName = Absent,
               !.currentProgramCode = Absent]

flushBlock(st) ==
    IF /\ Len(st.currentBlock) > 0
       /\ TrimmedLength(st.currentBlock) > MinContentLength
       /\ (Truthy(st.currentProgramName) \/ Truthy(st.currentProgramCode))
    THEN Emptied(Push(st, "program", st.currentProgramName,
                      st.currentProgramCode, WholeBlock(st.currentBlock)))
    ELSE Emptied(st)

FallbackLine(st, k) ==
    IF k \in SectionKinds
    THEN [flushBlock(st) EXCEPT !.currentSection = SectionName(k),
                                !.passed = SectionName(k)]
    ELSE IF k = "rule" THEN flushBlock(st)
    ELSE IF k \in {"name", "star"}
         THEN [flushBlock(st) EXCEPT
                  !.currentProgramName = IF k = "name" THEN ProgramName ELSE StarredName,
                  !.currentBlock = <<k>>]
    ELSE IF k = "prog" /\ ~Truthy(st.currentProgramName)
         THEN [flushBlock(st) EXCEPT !.currentProgramName = ProgramName,
                                     !.currentBlock = <<k>>]
    ELSE IF k = "code"
         THEN [st EXCEPT !.currentProgramCode = ProgramCode,
                         !.currentBlock = Append(@, k)]
    ELSE [st EXCEPT !.currentBlock = Append(@, k)]

RECURSIVE FallbackLoop(_)
FallbackLoop(st) ==
    IF st.lines = <<>> THEN flushBlock(st)
    ELSE FallbackLoop(FallbackLine([st EXCEPT !.lines = Tail(@)], Head(st.lines)))

FallbackState(lines) ==
    FallbackLoop([chunks |-> FallbackNotes(lines),
                  chunkIndex |-> Len(FallbackNotes(lines)),
                  currentSection |-> NoSection,
                  currentBlock |-> <<>>,
                  currentProgramName |-> Absent,
                  currentProgramCode |-> Absent,
                  lines |-> lines,
                  passed |-> NoSection,
                  precededBy |-> BesideNotes(FallbackNotes(lines))])

splitByProgramBlocks(lines) == FallbackState(lines).chunks

\* The test of line 179 with the comparison off by one.
FewDetectedInclusive(lines) == Len(PrimaryPass(lines)) <= FewChunks

FewDetected(lines) == Len(PrimaryPass(lines)) < FewChunks

\* splitIntoChunks of the text ingestor.
splitIntoChunks(lines) ==
    IF FewDetected(lines) THEN splitByProgramBlocks(lines) ELSE PrimaryPass(lines)

\* ---------------------------------------------------------------------------
\* The chunker of the PDF ingestor.  The extracted text ends every line with a
\* line feed, which the untrimmed length of a block counts.
\* ---------------------------------------------------------------------------

\* Thresholds of the PDF chunker, and the arguments of splitLongBlock.
MinSectionLength == 50
MinPdfBlockLength == 100
LongBlockLength == 2000
SubChunkLength == 1500
Overlap == 200

RawLength(lines) ==
    IF Len(lines) = 0 THEN 0 ELSE SumLengths(lines, 1) + Len(lines)

\* text.split(/(?=...)/): a new piece starts before every line of the kinds.
RECURSIVE SplitBefore(_, _, _, _)
SplitBefore(lines, kinds, i, piece) ==
    IF i > Len(lines) THEN <<piece>>
    ELSE IF lines[i] \in kinds
         THEN <<piece>> \o SplitBefore(lines, kinds, i + 1, <<lines[i]>>)
    ELSE SplitBefore(lines, kinds, i + 1, Append(piece, lines[i]))

\* Index of the line feed that ends line i of a block.
LineFeedAt(lines, i) == SumLengths(SubSeq(lines, 1, i), 1) + i - 1

\* text.lastIndexOf('\n', end), -1 if there is none.
LastLineFeed(lines, end) ==
    LET at == {LineFeedAt(lines, i) : i \in 1..Len(lines)}
        upTo == {p \in at : p <= end}
    IN  IF upTo = {} THEN -1 ELSE CHOOSE p \in upTo : \A q \in upTo : q <= p

\* Where the full stops of a block are: the sentences of a long paragraph
\* are SentenceLength characters each, the other lines have no full stop.
SentenceLength == 10

\* The last full stop of line i at or before end, -1 if there is none.
LastFullStopOf(lines, i, end) ==
    LET first == LineFeedAt(lines, i) - LineLength(lines[i])
        all == LineLength(lines[i]) \div SentenceLength
        upTo == IF end < first THEN 0 ELSE (end - first + 1) \div SentenceLength
        j == IF upTo < all THEN upTo ELSE all
    IN  IF lines[i] = "long" /\ j >= 1 THEN first + SentenceLength * j - 1 ELSE -1

\* text.lastIndexOf('.', end), -1 if there is none.
LastFullStop(lines, end) ==
    LET last == {LastFullStopOf(lines, i, end) : i \in 1..Len(lines)}
    IN  CHOOSE p \in last \cup {-1} : \A q \in last : q <= p

\* A breaking point is taken only when it lies beyond this index.
BreakFloorAtStart(from) == from

BreakFloor(from) == from + SubChunkLength \div 2

\* end of one iteration of the loop of splitLongBlock.  The blocks hold no
\* blank line and no other punctuation, so the breaking points found are a
\* line feed or, failing that, a full stop.
SplitEnd(lines, from) ==
    LET reach == from + SubChunkLength
        feed == LastLineFeed(lines, reach)
        stop == LastFullStop(lines, reach)
    IN  IF reach >= RawLength(lines) THEN reach
        ELSE IF feed > BreakFloor(from) THEN feed + 1
        ELSE IF stop > BreakFloor(from) THEN stop + 1
        ELSE reach

\* text.slice(start, end): the range of the block it takes.
SliceOf(lines, from, end) ==
    [lines |-> lines, from |-> from,
     to |-> IF end < RawLength(lines) THEN end ELSE RawLength(lines)]

\* The loop of splitLongBlock.
RECURSIVE SplitLongFrom(_, _, _)
SplitLongFrom(lines, from, pieces) ==
    IF from >= RawLength(lines) THEN pieces
    ELSE SplitLongFrom(lines, SplitEnd(lines, from) - Overlap,
                       Append(pieces, SliceOf(lines, from, SplitEnd(lines, from))))

splitLongBlock(lines) == SplitLongFrom(lines, 0, <<>>)

\* The organizational notes of the PDF chunker: from the first marker to the
\* next section or name line.
PdfNotes(lines) ==
    LET a == FirstOf(lines, {"notes"}, 1)
        b == IF a = 0 THEN 0
             ELSE FirstOf(lines, SectionKinds \cup {"name", "star"}, a + 1)
    IN  IF b > 0
        THEN <<Chunk(Absent, Absent, Absent, NotesSection, 0,
                     WholeBlock(SubSeq(lines, a, b - 1)))>>
        ELSE <<>>

\* programNameMatch and programCodeMatch of a block.
PdfProgramName(block) ==
    LET n == FirstOf(block, {"name", "star"}, 1)
    IN  IF n = 0 THEN Absent ELSE IF block[n] = "name" THEN ProgramName ELSE <<>>

PdfProgramCode(block) ==
    IF FirstOf(block, {"code"}, 1) > 0 THEN ProgramCode ELSE Absent

\* sectionName of a section of the PDF text.
PdfSectionName(section) ==
    IF section[1] \in SectionKinds THEN SectionName(section[1]) ELSE Absent

\* The loops of the PDF chunker; currentSection is sectionName, and sections,
\* blocks and subChunks are what the loops have not visited yet.
RECURSIVE PushAll(_, _, _)
PushAll(st, name, code) ==
    IF st.subChunks = <<>> THEN st
    ELSE PushAll(Push([st EXCEPT !.subChunks = Tail(@)], Absent, name, code,
                      Head(st.subChunks)), name, code)

PdfBlock(st, block) ==
    IF TrimmedLength(block) < MinPdfBlockLength THEN st
    ELSE IF RawLength(block) > LongBlockLength
         THEN PushAll([st EXCEPT !.subChunks = splitLongBlock(block)],
                      PdfProgramName(block), PdfProgramCode(block))
    ELSE Push(st, Absent, PdfProgramName(block), PdfProgramCode(block),
              WholeBlock(block))

RECURSIVE PdfBlocks(_)
PdfBlocks(st) ==
    IF st.blocks = <<>> THEN st
    ELSE PdfBlocks(PdfBlock([st EXCEPT !.blocks = Tail(@)], Head(st.blocks)))

RECURSIVE PdfSections(_)
PdfSections(st) ==
    IF st.sections = <<>> THEN st
    ELSE IF TrimmedLength(Head(st.sections)) < MinSectionLength
         THEN PdfSections([st EXCEPT !.sections = Tail(@)])
    ELSE PdfSections(PdfBlocks([st EXCEPT
             !.sections = Tail(@),
             !.currentSection = PdfSectionName(Head(st.sections)),
             !.blocks = SplitBefore(Head(st.sections), {"name", "star"}, 1, <<>>)]))

\* splitIntoChunks of the PDF ingestor; chunkIndex starts at 1 whether or not
\* the notes chunk was pushed.
splitIntoChunksPdf(lines) ==
    PdfSections([chunks |-> PdfNotes(lines), chunkIndex |-> 1,
                 currentSection |-> Absent,
                 sections |-> SplitBefore(lines, SectionKinds, 1, <<>>),
                 blocks |-> <<>>, subChunks |-> <<>>,
                 passed |-> NoSection,
                 precededBy |-> BesideNotes(PdfNotes(lines))]).chunks

\* ---------------------------------------------------------------------------
\* One call of a chunker on one text.  The texts are a short free head, a
\* number of copies of one program entry, and a free last line.
\* ---------------------------------------------------------------------------

\* Longest free head, largest number of copies of the entry, largest number
\* of calls on one text.
MaxHead == 2
MaxEntries == 10
MaxCalls == 2

Entries == {<<"name", "code">>, <<"sect", "para", "star", "code", "para">>, <<"name", "long", "rule">>}

RECURSIVE Repeat(_, _)
Repeat(entry, n) == IF n = 0 THEN <<>> ELSE entry \o Repeat(entry, n - 1)

Heads == UNION {[1..n -> LineKinds] : n \in 0..MaxHead}

Texts ==
    {h \o Repeat(e, n) : h \in Heads, e \in Entries,
                         n \in {0, 1, MaxEntries - 1, MaxEntries}}

ChunkerInit ==
    /\ HandlerIdle
    /\ SessionIdle
    /\ IngestIdle
    /\ splitter \in {"text", "pdf"}
    /\ text \in Texts
    /\ cpc = "ready"
    /\ chunks = <<>>
    /\ primaryChunks = <<>>
    /\ fallbackRun = FALSE
    /\ calls = 0
    /\ previousChunks = <<>>
    /\ leftIndex = 0
    /\ start = 0

\* splitIntoChunks(text) of scripts/ingest (text file), called on the same
\* text up to MaxCalls times.
SplitText ==
    /\ cpc \in {"ready", "split"}
    /\ calls < MaxCalls
    /\ splitter = "text"
    /\ primaryChunks' = PrimaryPass(text)
    /\ fallbackRun' = FewDetected(text)
    /\ chunks' = splitIntoChunks(text)
    /\ leftIndex' = FirstIndex + Len(PrimaryPass(text))
    /\ previousChunks' = chunks
    /\ calls' = calls + 1
    /\ cpc' = "split"
    /\ UNCHANGED <<handlerVars, sessionVars, ingestVars, splitter, text, start>>

\* splitIntoChunks(text) of scripts/ingest (PDF), likewise.
SplitPdf ==
    /\ cpc \in {"ready", "split"}
    /\ calls < MaxCalls
    /\ splitter = "pdf"
    /\ chunks' = splitIntoChunksPdf(text)
    /\ primaryChunks' = chunks'
    /\ previousChunks' = chunks
    /\ calls' = calls + 1
    /\ cpc' = "split"
    /\ UNCHANGED <<handlerVars, sessionVars, ingestVars, splitter, text, fallbackRun,
                   leftIndex, start>>

ChunkerNext == SplitText \/ SplitPdf

\* ---------------------------------------------------------------------------
\* splitLongBlock(text, 1500, 200) of the PDF script, one iteration of its
\* loop at a time.  text is the block, chunks the sub-chunks pushed so far.
\* ---------------------------------------------------------------------------
MaxBlockLines == 3

Blocks == UNION {[1..n -> LineKinds] : n \in 1..MaxBlockLines}

SplitLongInit ==
    /\ HandlerIdle
    /\ SessionIdle
    /\ IngestIdle
    /\ splitter = "pdf"
    /\ text = <<>>
    /\ cpc = "block"
    /\ chunks = <<>>
    /\ primaryChunks = <<>>
    /\ fallbackRun = FALSE
    /\ calls = 0
    /\ previousChunks = <<>>
    /\ leftIndex = 0
    /\ start = 0

\* splitLongBlock(block, 1500, 200) is called: chunks = [], start = 0.
SplitLongCall ==
    /\ cpc = "block"
    /\ text' \in Blocks
    /\ chunks' = <<>>
    /\ start' = 0
    /\ cpc' = "long"
    /\ UNCHANGED <<handlerVars, sessionVars, ingestVars, splitter, primaryChunks, fallbackRun,
                   calls, previousChunks, leftIndex>>

\* One iteration of while (start < text.length).
SplitLongStep ==
    /\ cpc = "long"
    /\ start < RawLength(text)
    /\ chunks' = Append(chunks, SliceOf(text, start, SplitEnd(text, start)))
    /\ start' = SplitEnd(text, start) - Overlap
    /\ UNCHANGED <<handlerVars, sessionVars, ingestVars, splitter, text, cpc, primaryChunks,
                   fallbackRun, calls, previousChunks, leftIndex>>

\* return chunks
SplitLongReturn ==
    /\ cpc = "long"
    /\ start >= RawLength(text)
    /\ cpc' = "returned"
    /\ UNCHANGED <<handlerVars, sessionVars, ingestVars, splitter, text, chunks, primaryChunks,
                   fallbackRun, calls, previousChunks, leftIndex, start>>

SplitLongNext == SplitLongCall \/ SplitLongStep \/ SplitLongReturn

SplitLongSpec == SplitLongInit /\ [][SplitLongNext]_vars

\* The loop is not held back for ever.
FairSplitLongSpec == SplitLongSpec /\ WF_vars(SplitLongNext)

ChunkerSpec == ChunkerInit /\ [][ChunkerNext]_vars

\* ---------------------------------------------------------------------------
\* Claims about the chunkers.
\* ---------------------------------------------------------------------------

\* The chunks of a sequence, as a set.
ChunkSet(cs) == {cs[i] : i \in 1..Len(cs)}

\* A chunk that is neither the organizational notes nor a section header.  The
\* text chunkers label their chunks; the PDF chunker does not: its notes chunk
\* is the one of index 0, and a chunk that starts with a section line is taken
\* as a section header.
IsProgramChunk(c) ==
    IF splitter = "text" THEN c.chunk_type = "program"
    ELSE /\ c.chunk_index # 0
         /\ ~(c.content.from = 0 /\ c.content.lines[1] \in SectionKinds)

Identified(c) == Truthy(c.program_name) \/ Truthy(c.program_code)

\* C18: every program chunk of the primary text splitter, of the fallback
\* splitter and of the PDF splitter carries a non-empty program_name or a
\* non-empty program_code.
C18_ProgramChunkIdentified ==
    cpc = "split" =>
        \A c \in ChunkSet(chunks) \cup ChunkSet(primaryChunks) :
            IsProgramChunk(c) => Identified(c)

StrictlyIncreasing(cs) ==
    \A i \in 1..Len(cs) : \A j \in 1..Len(cs) :
        i < j => cs[i].chunk_index < cs[j].chunk_index

CountedFromZero(cs) == \A i \in 1..Len(cs) : cs[i].chunk_index = i - 1

\* C19: in the chunk sequence returned for one document the chunk_index
\* values are strictly increasing in emission order, and in the text chunker
\* they are exactly 0, 1, 2, ..., for the primary pass as for the fallback,
\* with or without an organizational notes chunk.
C19_ChunkIndexIncreasing ==
    cpc = "split" =>
        /\ StrictlyIncreasing(chunks)
        /\ StrictlyIncreasing(primaryChunks)
        /\ splitter = "text" => CountedFromZero(chunks) /\ CountedFromZero(primaryChunks)

\* The fallback returned the organizational notes and at least two programs.
C19_Witness ==
    /\ cpc = "split"
    /\ splitter = "text"
    /\ fallbackRun
    /\ Len(chunks) >= 3
    /\ chunks[1].chunk_type = "organizational_notes"

\* C20: the fallback chunker is run if and only if the primary pass yields
\* fewer than 10 chunks; with 10 or more the primary chunks are returned
\* unchanged, with fewer the returned sequence is the fallback's output.
C20_FallbackSwitch ==
    cpc = "split" /\ splitter = "text" =>
        /\ fallbackRun <=> Len(primaryChunks) < FewChunks
        /\ ~fallbackRun => chunks = primaryChunks
        /\ fallbackRun => chunks = splitByProgramBlocks(text)

\* The primary pass found nine chunks, and the fallback, which was returned,
\* found other ones.
C20_Witness ==
    /\ cpc = "split"
    /\ splitter = "text"
    /\ Len(primaryChunks) = FewChunks - 1
    /\ fallbackRun
    /\ chunks # primaryChunks

\* The primary pass found exactly ten chunks and they were returned.
C20_WitnessKept ==
    /\ cpc = "split"
    /\ splitter = "text"
    /\ Len(primaryChunks) = FewChunks
    /\ ~fallbackRun
    /\ chunks # splitByProgramBlocks(text)

\* C21: whenever the fallback chunker is activated it returns at least as
\* many chunks as the primary pass produced on the same text.
C21_FallbackNotFewer ==
    cpc = "split" /\ splitter = "text" /\ fallbackRun =>
        Len(chunks) >= Len(primaryChunks)

AcceptedFrom(k) ==
    {log[k].docs[i].id : i \in DOMAIN log[k].docs}
        \ UNION {{log[j].docs[i].id : i \in DOMAIN log[j].docs} : j \in 1..(k - 1)}

\* A match accepted from an earlier call is missing from the final list
\* while a match first proposed by a later call is in it.
PushedOut ==
    \E k, l \in DOMAIN log :
        /\ k < l
        /\ \E id \in AcceptedFrom(k) : \A i \in DOMAIN contextDocs : contextDocs[i].id # id
        /\ \E id \in AcceptedFrom(l) : \E i \in DOMAIN contextDocs : contextDocs[i].id = id

\* C23: at every point during retrieval the number of accumulated matches is
\* at most the context cap, and no match accepted from an earlier strategy is
\* pushed out of the final result by a match proposed by a later strategy.
C23_MergedUpToCap ==
    /\ pc \in RetrievalPcs => Len(relevantDocs) <= ContextCap(variant)
    /\ response.status = 200 => ~PushedOut

\* The section of every program chunk of a loop's end state is the name of
\* the last section line the loop went past before pushing it.
SectionsFollowText(st) ==
    \A i \in 1..Len(st.chunks) :
        st.chunks[i].chunk_type = "program" => st.chunks[i].section = st.precededBy[i]

\* C24: in the primary text splitter and in the fallback splitter the section
\* field of each program chunk is the name of the most recent section line
\* that precedes it in the text, and is empty only when none precedes it
\* (stated of the result that splitIntoChunks returns).
C24_SectionIsMostRecent ==
    cpc = "split" /\ splitter = "text" =>
        /\ ~fallbackRun => /\ chunks = PrimaryState(text).chunks
                           /\ SectionsFollowText(PrimaryState(text))
        /\ fallbackRun => /\ chunks = FallbackState(text).chunks
                          /\ SectionsFollowText(FallbackState(text))

\* Number of distinct matches the calls before the k-th logged call returned.
AccumulatedBefore(k) == Cardinality(IdsOf(ReturnedDocs(SubSeq(log, 1, k - 1))))

AllSimilarity(docs, s) == \A i \in DOMAIN docs : docs[i].similarity = s

Ran(call) == \E k \in DOMAIN log : log[k].call = call
LogIndex(call) == CHOOSE k \in DOMAIN log : log[k].call = call

\* Distinct matches returned by the logged calls among the given ones.
AccumulatedBy(stages) ==
    Cardinality(UNION {IdsOf(log[k].docs) : k \in {j \in DOMAIN log : log[j].call \in stages}})

\* C26: in the staged POST handler the program-name search runs iff a program
\* name was extracted and differs from the primary query, the code search
\* iff a code was extracted, the institution search iff fewer than 5 distinct
\* matches are accumulated after these stages and an institution was
\* extracted; the stages run in the order primary, program name, code,
\* institution.
C26_StageTriggers ==
    variant = "staged" /\ method = "POST" /\ pc = "respond" =>
        /\ Ran("stage1")
        /\ Ran("stage2") <=> (Truthy(analysis.program) /\ analysis.program # OptimizedQuery)
        /\ Ran("stage3") <=> Truthy(analysis.code)
        /\ Ran("stage4") <=> (/\ AccumulatedBy({"stage1", "stage2", "stage3"}) < Stage4Min
                              /\ Truthy(analysis.university))
        /\ \A k, l \in DOMAIN log :
              /\ log[k].call \in {"stage1", "stage2", "stage3", "stage4"}
              /\ log[l].call \in {"stage1", "stage2", "stage3", "stage4"}
              /\ k < l
              => \E a, b \in 1..4 :
                    /\ a < b
                    /\ log[k].call = <<"stage1", "stage2", "stage3", "stage4">>[a]
                    /\ log[l].call = <<"stage1", "stage2", "stage3", "stage4">>[b]

\* All four stages ran.
C26_Witness ==
    /\ variant = "staged"
    /\ method = "POST"
    /\ pc = "respond"
    /\ Ran("stage2") /\ Ran("stage3") /\ Ran("stage4")

\* C27: splitLongBlock terminates on any block for maxLength 1500 and overlap
\* 200: start strictly increases from one iteration to the next, and the
\* function returns.
C27_SplitLongTerminates ==
    /\ [][SplitLongStep => start' > start]_vars
    /\ (cpc = "long") ~> (cpc = "returned")

\* A call that returned after three iterations, one of which ended at a
\* breaking point.
C27_Witness ==
    /\ cpc = "returned"
    /\ Len(chunks) >= 3
    /\ \E k \in DOMAIN chunks :
          /\ chunks[k].to < RawLength(text)
          /\ chunks[k].to < chunks[k].from + SubChunkLength

\* Number of characters of a sub-chunk: text.slice(start, end).trim().  No two
\* line feeds are adjacent, and nothing else in a block is white space.
ContentLength(piece) ==
    LET feeds == {LineFeedAt(piece.lines, i) : i \in 1..Len(piece.lines)}
        lead == IF piece.from \in feeds THEN 1 ELSE 0
        trail == IF piece.to - 1 \in feeds /\ piece.to - 1 > piece.from THEN 1 ELSE 0
    IN  piece.to - piece.from - lead - trail

\* The ranges of the sub-chunks leave no character of the block out.
CoversBlock ==
    /\ chunks # <<>>
    /\ chunks[1].from = 0
    /\ chunks[Len(chunks)].to = RawLength(text)
    /\ \A k \in 1..(Len(chunks) - 1) : chunks[k + 1].from <= chunks[k].to

AtMostSubChunkLength == \A k \in DOMAIN chunks : ContentLength(chunks[k]) <= SubChunkLength

OverlapExact == \A k \in 1..(Len(chunks) - 1) : chunks[k].to - chunks[k + 1].from = Overlap

NoneContained ==
    \A k \in 1..(Len(chunks) - 1) :
        ~(chunks[k].from <= chunks[k + 1].from /\ chunks[k + 1].to <= chunks[k].to)

\* C28: for a block longer than 2000 characters the sub-chunk ranges cover
\* the whole block, each sub-chunk is at most 1500 characters long,
\* consecutive ranges overlap by exactly 200 characters, and no range lies
\* entirely inside the one before it.
C28_SubChunkRanges ==
    cpc = "returned" /\ RawLength(text) > LongBlockLength =>
        CoversBlock /\ AtMostSubChunkLength /\ OverlapExact /\ NoneContained

\* The searches a request has made are those the conditions of the POST
\* handler of its route select.
StagedAsPost ==
    /\ Ran("stage2") <=> (Truthy(analysis.program) /\ analysis.program # OptimizedQuery)
    /\ Ran("stage3") <=> Truthy(analysis.code)
    /\ Ran("stage4") <=> (/\ AccumulatedBy({"stage1", "stage2", "stage3"}) < Stage4Min
                          /\ Truthy(analysis.university))

MultiAsPost ==
    /\ Ran("strategy2") <=> (/\ Truthy(analysis.program)
                             /\ AccumulatedBy({"strategy1"}) < Strategy2Max)
    /\ Ran("strategy3") <=> Truthy(analysis.code)
    /\ Ran("strategy4") <=>
          (/\ AccumulatedBy({"strategy1", "strategy2", "strategy3"}) < DirectMin
           /\ Len(Keywords) > 0)
    /\ Ran("strategy5") <=>
          (/\ AccumulatedBy({"strategy1", "strategy2", "strategy3", "strategy4"}) < SampleMin
           /\ analysis.is_general_question)

\* C29: the GET and the POST handler of a route run the same searches in the
\* same order: whatever the method, a request that reaches the ranking step
\* has made exactly the searches the POST conditions select for its analysis
\* and the matches found, and it then ranks and truncates the accumulated
\* matches in the same way.
C29_GetRunsPostStrategies ==
    /\ pc = "respond" => IF variant = "staged" THEN StagedAsPost ELSE MultiAsPost
    /\ pc = "done" /\ response \in {AnswerResponse, StreamResponse} =>
          contextDocs = Slice(SortDocs(variant, analysis.program, relevantDocs),
                              ContextCap(variant))

\* The events the sendMessage call has read from the response stream.
EventsRead == SubSeq(events, 1, consumed)

AssistantMessages == {k \in DOMAIN messages : messages[k].role = "assistant"}

\* C30: every question sent and not aborted eventually gets exactly one
\* assistant message and isLoading is false again; when the stream read
\* ended with an error event, that message is the error notice, not the
\* empty or partial answer.
C30_OneAnswerOrNotice ==
    /\ (clientPc = "fetch") ~> (clientPc = "done")
    /\ [](clientPc = "done" => ~isLoading /\ Cardinality(AssistantMessages) = 1)
    /\ [](/\ clientPc = "done"
          /\ \E k \in DOMAIN EventsRead : EventsRead[k].type = "error"
          => messages[Len(messages)].content = ErrorNotice)

====
